---- MODULE Spec2Model ----
(***************************************************************************)
(* Authentication, lockout and token handling of the Guard Monitoring      *)
(* System (Google Apps Script): authenticateUser of Dashboard.js, the      *)
(* token functions and updateUser of Security.js, over the Users sheet and *)
(* the script's user cache.                                                *)
(*                                                                         *)
(* Time is in milliseconds since the start of the run (JavaScript Date     *)
(* arithmetic is in milliseconds); the cache takes its time-to-live in     *)
(* seconds.  A sheet cell that holds '' is the value EMPTY.                *)
(***************************************************************************)
EXTENDS Integers, Sequences, FiniteSets, TLC

VARIABLES
    users,          \* the data rows of the Users sheet, in sheet order
    cache,          \* CacheService.getUserCache(): key -> [value, expires]
    now,            \* the clock, new Date().getTime()
    uuidCount,      \* how many values Utilities.getUuid() has handed out
    advances,       \* how many times the clock has been advanced
    call,           \* the last call made: its name, arguments and time, and for
                    \* authenticateUser the row it read and whether it hashed
    result,         \* what the last call returned
    sessionLog,     \* history: every session token issued, with user and time
    csrfLog,        \* history: every CSRF token issued, in order of issue
    invalidated,    \* history: the tokens invalidateSessionToken was given
    guards,         \* the data rows of the Guards sheet
    documents,      \* the data rows of the Documents sheet
    performance,    \* the data rows of the Performance sheet
    violationTypes, \* the data rows of the Violation Types sheet
    audit,          \* the data rows of the Audit Trail sheet
    faultCount,     \* how many calls have met a failing spreadsheet or cache
    archive,        \* the rows of the 'Audit Archive yyyy-MM' sheets, each with
                    \* the name of its sheet
    pending,        \* the executions of authenticateUser that have read the
                    \* Users sheet and not yet written to it
    wrongVerified,  \* how many of these executions have gone on to verify a
                    \* wrong password
    dayZero         \* the day on which the clock read 0, in days since
                    \* 2 January 2025: the time is dayZero days and now ms

\* The sheets the record-keeping operations work on.
records == <<guards, documents, performance, violationTypes, audit>>

vars == <<users, cache, now, uuidCount, advances, call, result,
          sessionLog, csrfLog, invalidated, guards, documents, performance,
          violationTypes, audit, faultCount, archive, pending, wrongVerified,
          dayZero>>

\* What only archiveOldAuditLogs, resetDatabase and concurrent logins change.
aside == <<archive, pending, wrongVerified, dayZero>>

(***************************************************************************)
(* Bounds of the model.                                                    *)
(***************************************************************************)
MaxAdvances == 2
MaxUuid == 3
MaxFaults == 1
MaxSessionUuid == 5
MaxUsers == 4
MaxRows == 1
MaxAudit == 1
MaxTrail == 15
MaxEdited == 3
MaxLive == 6

(***************************************************************************)
(* CONFIG.VALIDATION and the literals of the handlers.                     *)
(***************************************************************************)
MAX_PASSWORD_LENGTH == 128
MAX_LOGIN_ATTEMPTS == 5
LOCKOUT_DURATION_MINUTES == 15
SESSION_TIMEOUT_MINUTES == 360
MIN_PASSWORD_LENGTH == 8
PASSWORD_HISTORY_COUNT == 5
MAX_USERNAME_LENGTH == 50
CSRF_EXPIRY_SECONDS == 3600
RETENTION_DAYS == 365

\* Object.values(CONFIG.SHEET_NAMES).length
SheetCount == 9
MS_PER_MINUTE == 60000

EMPTY == -1

(***************************************************************************)
(* JavaScript values handed to authenticateUser: a string, undefined, or a *)
(* number.                                                                 *)
(***************************************************************************)
Str(s) == [type |-> "string", value |-> s]
Undefined == [type |-> "undefined", value |-> ""]
Num7 == [type |-> "number", value |-> "7"]

\* !v
Falsy(v) == v.type = "undefined" \/ (v.type = "string" /\ v.value = "")

Long51 == "aaaaaaaaaaaaaaaaaaaaaaaaaaaaaaaaaaaaaaaaaaaaaaaaaaa"
Long129 == "Aa1aaaaaaaaaaaaaaaaaaaaaaaaaaaaaaaaaaaaaaaaaaaaaaaaaaaaaaaaaaaaaaaaaaaaaaaaaaaaaaaaaaaaaaaaaaaaaaaaaaaaaaaaaaaaaaaaaaaaaaaaaaaaaaaaaa"

AdminPassword == "ChangeMe2025!"
GuardPassword == "Guard1Pass"

(***************************************************************************)
(* Password Hasher.  SHA-256 followed by base64 is modelled as an          *)
(* injective, deterministic digest of the password text.                   *)
(***************************************************************************)
hashPassword(password) == "sha256:" \o password

verifyPassword(password, hash) == hashPassword(password) = hash

(***************************************************************************)
(* String.prototype.toLowerCase over the usernames of the model.           *)
(***************************************************************************)
toLowerCase(s) ==
    CASE s = "Admin" -> "admin"
      [] s = "Guard1" -> "guard1"
      [] s = "Clerk" -> "clerk"
      [] s = "Officer" -> "officer"
      [] OTHER -> s

(***************************************************************************)
(* Dates.  The clock now counts milliseconds and stays below 2^31; a Date  *)
(* is the day, in days since 2 January 2025, and the millisecond of the    *)
(* day, so that dates a year apart can be held and compared.               *)
(***************************************************************************)
MS_PER_DAY == 24 * 60 * MS_PER_MINUTE

\* new Date() when the clock reads t
DateAt(t) == [day |-> dayZero + t \div MS_PER_DAY, ms |-> t % MS_PER_DAY]

\* a < b for two Dates
Before(a, b) == a.day < b.day \/ (a.day = b.day /\ a.ms < b.ms)

\* date.setDate(date.getDate() - days)
MinusDays(date, days) == [date EXCEPT !.day = @ - days]

(***************************************************************************)
(* Utilities.formatDate(date, timeZone, pattern).  The run starts at       *)
(* 00:00:00 of 2 January 2025 in the script's time zone, and the calendar  *)
(* is that of the years 2025 to 2027, which have 365 days.  The operators  *)
(* that take a number format the Date at which the clock reads it.         *)
(***************************************************************************)
Pad2(n) == IF n < 10 THEN "0" \o ToString(n) ELSE ToString(n)

\* The number of days of the year before month m.
DaysBefore(m) == <<0, 31, 59, 90, 120, 151, 181, 212, 243, 273, 304, 334, 365>>[m]

Year(date) == 2025 + (date.day + 1) \div 365

\* The day of the year, from 0.
DayOfYear(date) == (date.day + 1) % 365

Month(date) ==
    CHOOSE m \in 1..12 :
        DaysBefore(m) <= DayOfYear(date) /\ DayOfYear(date) < DaysBefore(m + 1)

DayOfMonth(date) == DayOfYear(date) - DaysBefore(Month(date)) + 1

HHmmss(date, separator) ==
    LET seconds == date.ms \div 1000
    IN Pad2(seconds \div 3600) \o separator \o Pad2((seconds \div 60) % 60)
          \o separator \o Pad2(seconds % 60)

\* The pattern 'yyyyMMddHHmmss'.
FormatStamp(date) ==
    ToString(Year(date)) \o Pad2(Month(date)) \o Pad2(DayOfMonth(date))
       \o HHmmss(date, "")

yyyyMMddHHmmss(t) == FormatStamp(DateAt(t))

\* The pattern 'yyyy-MM'.
yyyyMM(date) == ToString(Year(date)) \o "-" \o Pad2(Month(date))

MonthName(m) ==
    <<"Jan", "Feb", "Mar", "Apr", "May", "Jun", "Jul", "Aug", "Sep", "Oct", "Nov",
      "Dec">>[m]

\* The pattern 'MMM dd, yyyy HH:mm:ss'.
MMMddyyyyHHmmss(date) ==
    MonthName(Month(date)) \o " " \o Pad2(DayOfMonth(date)) \o ", "
       \o ToString(Year(date)) \o " " \o HHmmss(date, ":")

(***************************************************************************)
(* The cache: put(key, value, seconds), get(key), remove(key).  An entry   *)
(* is readable until its time-to-live has elapsed; get decides it.         *)
(***************************************************************************)
CachePut(c, t, key, value, seconds) ==
    [k \in DOMAIN c \cup {key} |->
        IF k = key THEN [value |-> value, expires |-> t + seconds * 1000]
        ELSE c[k]]

CacheHas(c, t, key) == key \in DOMAIN c /\ t < c[key].expires

CacheGet(c, t, key) == c[key].value

CacheRemove(c, key) == [k \in DOMAIN c \ {key} |-> c[k]]

Uuid(n) == "uuid-" \o ToString(n)

toISOString(t) == "T+" \o ToString(t) \o "ms"

JSONstringify(obj) == <<"username", obj.username, "created", obj.created>>

JSONparse(text) == [username |-> text[2], created |-> text[4]]

Null == [type |-> "null"]

(***************************************************************************)
(* The Users sheet.  A row is one account; its cells are named after the   *)
(* sheet's columns.  The Password History cell holds the JSON text of an   *)
(* array of hashes, kept here as the array itself: every read of the cell  *)
(* goes through `|| '[]'`, so '' and '[]' both read as the empty array.    *)
(***************************************************************************)
DefaultAdminRow ==
    [userId |-> "USR001",
     username |-> "admin",
     passwordHash |-> hashPassword(AdminPassword),
     fullName |-> "System Administrator",
     role |-> "Admin",
     status |-> "Active",
     failedAttempts |-> 0,
     lastFailed |-> EMPTY,
     lockedUntil |-> EMPTY,
     passwordHistory |-> <<hashPassword(AdminPassword)>>,
     forcePasswordChange |-> "TRUE"]

\* The row addUser appends: seven cells, the rest of the row is empty.
AddedUserRow(userId, userData) ==
    [userId |-> userId,
     username |-> userData.username,
     passwordHash |-> hashPassword(userData.password),
     fullName |-> userData.fullName,
     role |-> userData.role,
     status |-> userData.status,
     failedAttempts |-> EMPTY,
     lastFailed |-> EMPTY,
     lockedUntil |-> EMPTY,
     passwordHistory |-> <<>>,
     forcePasswordChange |-> ""]

GuardUserData ==
    [userId |-> "USR20250101000000",
     username |-> "guard1",
     password |-> GuardPassword,
     fullName |-> "Guard One",
     role |-> "Viewer",
     status |-> "Active"]

\* The password each account of the model was given.
PasswordOf(username) == IF username = "admin" THEN AdminPassword ELSE GuardPassword

(***************************************************************************)
(* authenticateUser, Dashboard.js.                                         *)
(***************************************************************************)
\* Input validation: both present, both strings, neither too long.
ValidCredentialInput(username, password) ==
    /\ ~Falsy(username)
    /\ ~Falsy(password)
    /\ username.type = "string"
    /\ password.type = "string"
    /\ ~(Len(username.value) > MAX_USERNAME_LENGTH
           \/ Len(password.value) > MAX_PASSWORD_LENGTH)

\* A variant that compares as addUser does, ignoring letter case.
UsernameMatches_IgnoreCase(storedUsername, username) ==
    username.type = "string" /\ toLowerCase(storedUsername) = toLowerCase(username.value)

\* storedUsername === username
UsernameMatches(storedUsername, username) ==
    username.type = "string" /\ storedUsername = username.value

\* The loop over the rows: the first row whose username matches, 0 if none.
FindUser(sheet, username) ==
    LET hits == {i \in 1..Len(sheet) : UsernameMatches(sheet[i].username, username)}
    IN IF hits = {} THEN 0 ELSE CHOOSE i \in hits : \A j \in hits : i <= j

\* row[7] || 0
FailedAttemptsOf(row) == IF row.failedAttempts = EMPTY THEN 0 ELSE row.failedAttempts

\* lockedUntil && now < lockedUntil
IsLocked(row, t) == row.lockedUntil # EMPTY /\ t < row.lockedUntil

\* A variant that rounds down: Math.floor instead of Math.ceil.
MinutesLeft_Floor(row, t) == (row.lockedUntil - t) \div MS_PER_MINUTE

\* Math.ceil((lockedUntil - now) / 60000), for lockedUntil > now
MinutesLeft(row, t) == (row.lockedUntil - t + MS_PER_MINUTE - 1) \div MS_PER_MINUTE

Plural(n) == IF n # 1 THEN "s" ELSE ""

LockedMessage(minutes) ==
    "Account locked due to multiple failed login attempts. Try again in "
        \o ToString(minutes) \o " minute" \o Plural(minutes) \o "."

LockoutMessage ==
    "Account locked due to multiple failed login attempts. Try again in "
        \o ToString(LOCKOUT_DURATION_MINUTES) \o " minutes."

AttemptsMessage(attemptsLeft) ==
    "Invalid credentials. " \o ToString(attemptsLeft) \o " attempt"
        \o Plural(attemptsLeft) \o " remaining."

\* A variant that locks one failure late: > instead of >=.
ReachesLimit_Late(newFailedAttempts) == newFailedAttempts > MAX_LOGIN_ATTEMPTS

\* newFailedAttempts >= CONFIG.VALIDATION.MAX_LOGIN_ATTEMPTS
ReachesLimit(newFailedAttempts) == newFailedAttempts >= MAX_LOGIN_ATTEMPTS

\* A variant that checks the lock before the status.
AuthBranch_LockFirst(sheet, t, username, password) ==
    IF ~ValidCredentialInput(username, password) THEN "invalid"
    ELSE LET i == FindUser(sheet, username) IN
         IF i = 0 THEN "notFound"
         ELSE IF IsLocked(sheet[i], t) THEN "locked"
         ELSE IF sheet[i].status # "Active" THEN "inactive"
         ELSE IF verifyPassword(password.value, sheet[i].passwordHash) THEN "success"
         ELSE IF ReachesLimit(FailedAttemptsOf(sheet[i]) + 1) THEN "lockout"
         ELSE "failed"

\* The path authenticateUser takes through its code.
AuthBranch(sheet, t, username, password) ==
    IF ~ValidCredentialInput(username, password) THEN "invalid"
    ELSE LET i == FindUser(sheet, username) IN
         IF i = 0 THEN "notFound"
         ELSE IF sheet[i].status # "Active" THEN "inactive"
         ELSE IF IsLocked(sheet[i], t) THEN "locked"
         ELSE IF verifyPassword(password.value, sheet[i].passwordHash) THEN "success"
         ELSE IF ReachesLimit(FailedAttemptsOf(sheet[i]) + 1) THEN "lockout"
         ELSE "failed"

\* A variant that resets the count on success and leaves the lock fields as they
\* were.
AuthRow_KeepsLock(row, t, branch) ==
    CASE branch = "success" -> [row EXCEPT !.failedAttempts = 0]
      [] branch = "failed" ->
            [row EXCEPT !.failedAttempts = FailedAttemptsOf(row) + 1, !.lastFailed = t]
      [] branch = "lockout" ->
            [row EXCEPT !.failedAttempts = FailedAttemptsOf(row) + 1,
                        !.lastFailed = t,
                        !.lockedUntil = t + LOCKOUT_DURATION_MINUTES * MS_PER_MINUTE]
      [] OTHER -> row

\* The counters authenticateUser writes back to the account's row.
AuthRow(row, t, branch) ==
    CASE branch = "success" ->
            [row EXCEPT !.failedAttempts = 0, !.lastFailed = EMPTY, !.lockedUntil = EMPTY]
      [] branch = "failed" ->
            [row EXCEPT !.failedAttempts = FailedAttemptsOf(row) + 1, !.lastFailed = t]
      [] branch = "lockout" ->
            [row EXCEPT !.failedAttempts = FailedAttemptsOf(row) + 1,
                        !.lastFailed = t,
                        !.lockedUntil = t + LOCKOUT_DURATION_MINUTES * MS_PER_MINUTE]
      [] OTHER -> row

\* The Users sheet after the call.
AuthUsers(sheet, t, username, password) ==
    LET branch == AuthBranch(sheet, t, username, password)
        i == FindUser(sheet, username)
    IN IF branch \in {"success", "failed", "lockout"}
       THEN [sheet EXCEPT ![i] = AuthRow(sheet[i], t, branch)]
       ELSE sheet

\* The object the call returns; the two tokens are those minted on success.
AuthResult(sheet, t, username, password, sessionToken, csrfToken) ==
    LET branch == AuthBranch(sheet, t, username, password)
        i == FindUser(sheet, username)
    IN CASE branch = "invalid" -> [success |-> FALSE, message |-> "Invalid credentials"]
         [] branch = "notFound" -> [success |-> FALSE, message |-> "Invalid credentials"]
         [] branch = "inactive" ->
                [success |-> FALSE,
                 message |-> "Account is inactive. Please contact administrator."]
         [] branch = "locked" ->
                [success |-> FALSE, message |-> LockedMessage(MinutesLeft(sheet[i], t))]
         [] branch = "lockout" -> [success |-> FALSE, message |-> LockoutMessage]
         [] branch = "failed" ->
                [success |-> FALSE,
                 message |-> AttemptsMessage(
                                 MAX_LOGIN_ATTEMPTS - (FailedAttemptsOf(sheet[i]) + 1))]
         [] branch = "success" ->
                [success |-> TRUE,
                 message |-> "Login successful!",
                 user |-> [username |-> sheet[i].username,
                           fullName |-> sheet[i].fullName,
                           role |-> sheet[i].role],
                 sessionToken |-> sessionToken,
                 csrfToken |-> csrfToken,
                 forcePasswordChange |-> sheet[i].forcePasswordChange = "TRUE"]

(***************************************************************************)
(* authenticateUser when the storage fails.  The whole body runs inside    *)
(* try/catch: getSpreadsheet may throw ("open"), the Users sheet may be    *)
(* missing ("noSheet"), getValues may throw ("read"), and the k-th         *)
(* setValue of the call may throw ("write1".."write3"), after the writes   *)
(* before it have reached the sheet.                                       *)
(***************************************************************************)
WriteFaults == {"write1", "write2", "write3"}

WriteFaultIndex(fault) ==
    CASE fault = "write1" -> 1
      [] fault = "write2" -> 2
      [] fault = "write3" -> 3
      [] OTHER -> 0

\* The cells the call sets, in the order of its setValue calls.
AuthWrites(row, t, branch) ==
    CASE branch = "success" ->
            << <<"failedAttempts", 0>>, <<"lastFailed", EMPTY>>, <<"lockedUntil", EMPTY>> >>
      [] branch = "failed" ->
            << <<"failedAttempts", FailedAttemptsOf(row) + 1>>, <<"lastFailed", t>> >>
      [] branch = "lockout" ->
            << <<"failedAttempts", FailedAttemptsOf(row) + 1>>, <<"lastFailed", t>>,
               <<"lockedUntil", t + LOCKOUT_DURATION_MINUTES * MS_PER_MINUTE>> >>
      [] OTHER -> <<>>

\* The row once the first n of these writes have been made.
RowAfterWrites(row, writes, n) ==
    [f \in DOMAIN row |->
        LET hits == {j \in 1..n : writes[j][1] = f}
        IN IF hits = {} THEN row[f] ELSE writes[CHOOSE j \in hits : TRUE][2]]

\* A variant in which a failing read is not caught.
AuthOutcome_ReadEscapes(sheet, t, username, password, fault) ==
    IF fault = "open" THEN "error"
    ELSE IF fault = "noSheet" THEN "noSheet"
    ELSE IF ~ValidCredentialInput(username, password) THEN "invalid"
    ELSE IF fault = "read" THEN "thrown"
    ELSE LET branch == AuthBranch(sheet, t, username, password)
             i == FindUser(sheet, username)
         IN IF /\ fault \in WriteFaults
               /\ branch \in {"success", "failed", "lockout"}
               /\ WriteFaultIndex(fault) <= Len(AuthWrites(sheet[i], t, branch))
            THEN "error" ELSE branch

\* The path the call takes: that of AuthBranch, "noSheet" when the Users sheet is
\* missing, "error" when the catch block is reached.
AuthOutcome(sheet, t, username, password, fault) ==
    IF fault = "open" THEN "error"
    ELSE IF fault = "noSheet" THEN "noSheet"
    ELSE IF ~ValidCredentialInput(username, password) THEN "invalid"
    ELSE IF fault = "read" THEN "error"
    ELSE LET branch == AuthBranch(sheet, t, username, password)
             i == FindUser(sheet, username)
         IN IF /\ fault \in WriteFaults
               /\ branch \in {"success", "failed", "lockout"}
               /\ WriteFaultIndex(fault) <= Len(AuthWrites(sheet[i], t, branch))
            THEN "error" ELSE branch

\* What a call that does not log in returns.
AuthFaultResult(sheet, t, username, password, fault) ==
    LET outcome == AuthOutcome(sheet, t, username, password, fault)
    IN CASE outcome = "thrown" -> [type |-> "exception"]
         [] outcome = "error" ->
                [success |-> FALSE, message |-> "Authentication failed. Please try again."]
         [] outcome = "noSheet" ->
                [success |-> FALSE,
                 message |-> "System error. Please contact administrator."]
         [] OTHER -> AuthResult(sheet, t, username, password, "", "")

(***************************************************************************)
(* Token Issuer/Validator, Security.js.  Each function is given the cache, *)
(* the time and the number of UUIDs handed out so far.                     *)
(***************************************************************************)
\* A variant that keeps a token that is still live instead of overwriting it.
generateCsrfToken_KeepsFirst(c, t, n, username) ==
    LET token == Uuid(n + 1)
    IN [token |-> token,
        cache |-> IF CacheHas(c, t, "csrf_token_" \o username) THEN c
                  ELSE CachePut(c, t, "csrf_token_" \o username, token,
                                CSRF_EXPIRY_SECONDS),
        uuidCount |-> n + 1]

generateCsrfToken(c, t, n, username) ==
    LET token == Uuid(n + 1)
    IN [token |-> token,
        cache |-> CachePut(c, t, "csrf_token_" \o username, token, CSRF_EXPIRY_SECONDS),
        uuidCount |-> n + 1]

validateCsrfToken(c, t, username, token) ==
    IF token = "" \/ username = "" THEN FALSE
    ELSE /\ CacheHas(c, t, "csrf_token_" \o username)
         /\ token = CacheGet(c, t, "csrf_token_" \o username)

\* A variant that passes the timeout in minutes where the cache takes seconds.
generateSessionToken_Minutes(c, t, n, username) ==
    LET token == Uuid(n + 1)
        sessionData == JSONstringify([username |-> username, created |-> toISOString(t)])
    IN [token |-> token,
        cache |-> CachePut(c, t, "session_" \o token, sessionData,
                           SESSION_TIMEOUT_MINUTES),
        uuidCount |-> n + 1]

generateSessionToken(c, t, n, username) ==
    LET token == Uuid(n + 1)
        sessionData == JSONstringify([username |-> username, created |-> toISOString(t)])
    IN [token |-> token,
        cache |-> CachePut(c, t, "session_" \o token, sessionData,
                           SESSION_TIMEOUT_MINUTES * 60),
        uuidCount |-> n + 1]

\* A variant of the catch block that hands back the token it could not store.
generateSessionTokenFails_KeepsToken(c, t, n, username) ==
    [token |-> Uuid(n + 1), cache |-> c, uuidCount |-> n + 1]

\* generateSessionToken when the cache throws: the catch block returns ''.
generateSessionTokenFails(c, t, n, username) ==
    [token |-> "", cache |-> c, uuidCount |-> n + 1]

\* generateCsrfToken when the cache throws: the catch block returns ''.
generateCsrfTokenFails(c, t, n, username) ==
    [token |-> "", cache |-> c, uuidCount |-> n + 1]

\* A variant that also looks the session's account up on the Users sheet, and
\* refuses the token of an account that is gone or not Active.
validateSessionToken_ChecksAccount(c, t, token) ==
    IF token = "" THEN Null
    ELSE IF ~CacheHas(c, t, "session_" \o token) THEN Null
    ELSE LET session == JSONparse(CacheGet(c, t, "session_" \o token))
         IN IF \E i \in 1..Len(users) :
                  users[i].username = session.username /\ users[i].status = "Active"
            THEN session ELSE Null

validateSessionToken(c, t, token) ==
    IF token = "" THEN Null
    ELSE IF ~CacheHas(c, t, "session_" \o token) THEN Null
    ELSE JSONparse(CacheGet(c, t, "session_" \o token))

\* A variant that removes the bare token, without the 'session_' prefix.
invalidateSessionToken_BareKey(c, token) ==
    IF token = "" THEN c ELSE CacheRemove(c, token)

\* A variant that empties the cache, as cache.removeAll would.
invalidateSessionToken_ClearsCache(c, token) ==
    IF token = "" THEN c ELSE <<>>

invalidateSessionToken(c, token) ==
    IF token = "" THEN c ELSE CacheRemove(c, "session_" \o token)

(***************************************************************************)
(* validatePassword and changePassword, Security.js.  Passwords are plain  *)
(* strings here.  The regular expressions /[A-Z]/, /[a-z]/ and /[0-9]/ are *)
(* tabulated over the passwords of the model.                              *)
(***************************************************************************)
FreshPasswords == {"NewPass01", "NewPass02", "NewPass03", "NewPass04", "NewPass05"}
ShortPassword == "Short1A"
LowercasePassword == "nouppercase1"

hasUpper(password) ==
    password \in FreshPasswords \cup {AdminPassword, GuardPassword, ShortPassword, Long129}
hasLower(password) ==
    password \in FreshPasswords
        \cup {AdminPassword, GuardPassword, ShortPassword, LowercasePassword, Long129}
hasNumber(password) ==
    password \in FreshPasswords
        \cup {AdminPassword, GuardPassword, ShortPassword, LowercasePassword, Long129}

validatePassword(password) ==
    IF password = "" \/ Len(password) < MIN_PASSWORD_LENGTH
    THEN [valid |-> FALSE,
          error |-> "Password must be at least " \o ToString(MIN_PASSWORD_LENGTH)
                        \o " characters"]
    ELSE IF Len(password) > MAX_PASSWORD_LENGTH
    THEN [valid |-> FALSE, error |-> "Password too long"]
    ELSE IF ~(hasUpper(password) /\ hasLower(password) /\ hasNumber(password))
    THEN [valid |-> FALSE,
          error |-> "Password must contain uppercase, lowercase, and number"]
    ELSE [valid |-> TRUE, error |-> ""]

\* Array.prototype.includes
includes(history, hash) == \E j \in 1..Len(history) : history[j] = hash

\* A variant that keeps one hash more than the configured count.
NewHistory_KeepsSix(history, hash) ==
    LET unshifted == <<hash>> \o history
    IN IF Len(unshifted) > PASSWORD_HISTORY_COUNT + 1
       THEN SubSeq(unshifted, 1, PASSWORD_HISTORY_COUNT + 1) ELSE unshifted

\* history.unshift(hash), then slice(0, PASSWORD_HISTORY_COUNT) when longer.
NewHistory(history, hash) ==
    LET unshifted == <<hash>> \o history
    IN IF Len(unshifted) > PASSWORD_HISTORY_COUNT
       THEN SubSeq(unshifted, 1, PASSWORD_HISTORY_COUNT) ELSE unshifted

\* The row with data[i][1] === username, 0 if none.
FindUserByName(sheet, username) ==
    LET hits == {i \in 1..Len(sheet) : sheet[i].username = username}
    IN IF hits = {} THEN 0 ELSE CHOOSE i \in hits : \A j \in hits : i <= j

\* The path changePassword takes through its code.
ChangeBranch(sheet, username, currentPassword, newPassword) ==
    LET i == FindUserByName(sheet, username)
    IN IF i = 0 THEN "notFound"
       ELSE IF ~verifyPassword(currentPassword, sheet[i].passwordHash) THEN "wrongCurrent"
       ELSE IF ~validatePassword(newPassword).valid THEN "weak"
       ELSE IF includes(sheet[i].passwordHistory, hashPassword(newPassword)) THEN "reused"
       ELSE "changed"

changePasswordResult(sheet, username, currentPassword, newPassword) ==
    LET branch == ChangeBranch(sheet, username, currentPassword, newPassword)
    IN CASE branch = "notFound" -> [success |-> FALSE, message |-> "User not found"]
         [] branch = "wrongCurrent" ->
                [success |-> FALSE, message |-> "Current password is incorrect"]
         [] branch = "weak" ->
                [success |-> FALSE, message |-> validatePassword(newPassword).error]
         [] branch = "reused" ->
                [success |-> FALSE,
                 message |-> "Password was used recently. Please choose a different password."]
         [] branch = "changed" ->
                [success |-> TRUE, message |-> "Password changed successfully"]

\* A variant that leaves the Force Password Change cell as it was.
ChangedRow_KeepsFlag(row, newPassword) ==
    [row EXCEPT !.passwordHash = hashPassword(newPassword),
                !.passwordHistory = NewHistory(@, hashPassword(newPassword))]

\* The cells changePassword sets: the hash, the history, the flag.
ChangedRow(row, newPassword) ==
    [row EXCEPT !.passwordHash = hashPassword(newPassword),
                !.passwordHistory = NewHistory(@, hashPassword(newPassword)),
                !.forcePasswordChange = "FALSE"]

changePasswordSheet(sheet, username, currentPassword, newPassword) ==
    LET i == FindUserByName(sheet, username)
    IN IF ChangeBranch(sheet, username, currentPassword, newPassword) = "changed"
       THEN [sheet EXCEPT ![i] = ChangedRow(@, newPassword)]
       ELSE sheet

(***************************************************************************)
(* updateUser, Security.js.                                                *)
(***************************************************************************)
trim(s) == IF s = " " THEN "" ELSE s

\* The first row with the given userId, 0 if none.
FindUserById(sheet, userId) ==
    LET hits == {i \in 1..Len(sheet) : sheet[i].userId = userId}
    IN IF hits = {} THEN 0 ELSE CHOOSE i \in hits : \A j \in hits : i <= j

UsernameTakenByOther(sheet, userData) ==
    \E i \in 1..Len(sheet) :
        /\ sheet[i].userId # userData.userId
        /\ toLowerCase(sheet[i].username) = toLowerCase(userData.username)

updateUserResult(sheet, userData) ==
    IF FindUserById(sheet, userData.userId) = 0
    THEN [success |-> FALSE, message |-> "User not found"]
    ELSE IF UsernameTakenByOther(sheet, userData)
    THEN [success |-> FALSE, message |-> "Username already exists"]
    ELSE [success |-> TRUE, message |-> "User updated successfully"]

updateUserSheet(sheet, userData) ==
    LET i == FindUserById(sheet, userData.userId)
    IN IF i = 0 \/ UsernameTakenByOther(sheet, userData) THEN sheet
       ELSE [sheet EXCEPT ![i] =
                [@ EXCEPT !.username = userData.username,
                          !.passwordHash =
                              IF userData.password # "" /\ trim(userData.password) # ""
                              THEN hashPassword(userData.password) ELSE @,
                          !.fullName = userData.fullName,
                          !.role = userData.role,
                          !.status = userData.status]]

(***************************************************************************)
(* hasAdminPermission and addUser, Security.js.                            *)
(***************************************************************************)
hasAdminPermission(sheet, username) ==
    \E i \in 1..Len(sheet) : sheet[i].username = username /\ sheet[i].role = "Admin"

\* input.trim().replace(/[<>"']/g, '').substring(0, 255), over the names of the
\* model.
sanitizeInput(input) ==
    CASE input = "<Admin>" -> "Admin"
      [] input = " clerk " -> "clerk"
      [] OTHER -> input

\* The path addUser takes through its code.
AddUserBranch(sheet, userData, currentUsername) ==
    IF ~hasAdminPermission(sheet, currentUsername) THEN "denied"
    ELSE IF userData.username = "" \/ userData.password = ""
              \/ userData.fullName = "" \/ userData.role = "" THEN "missing"
    ELSE IF ~validatePassword(userData.password).valid THEN "weak"
    ELSE IF \E i \in 1..Len(sheet) :
               toLowerCase(sheet[i].username)
                  = toLowerCase(sanitizeInput(userData.username)) THEN "exists"
    ELSE "added"

\* 'USR' + Utilities.formatDate(new Date(), ..., 'yyyyMMddHHmmss')
NewUserId(sheet, t) == "USR" \o yyyyMMddHHmmss(t)

addUserResult(sheet, t, userData, currentUsername) ==
    LET branch == AddUserBranch(sheet, userData, currentUsername)
    IN CASE branch = "denied" ->
                [success |-> FALSE, message |-> "Permission denied. Admin access required."]
         [] branch = "missing" -> [success |-> FALSE, message |-> "Missing required fields"]
         [] branch = "weak" ->
                [success |-> FALSE, message |-> validatePassword(userData.password).error]
         [] branch = "exists" -> [success |-> FALSE, message |-> "Username already exists"]
         [] branch = "added" ->
                [success |-> TRUE, userId |-> NewUserId(sheet, t),
                 message |-> "User added successfully"]

addUserSheet(sheet, t, userData, currentUsername) ==
    IF AddUserBranch(sheet, userData, currentUsername) = "added"
    THEN Append(sheet,
                AddedUserRow(NewUserId(sheet, t),
                             [userData EXCEPT !.username = sanitizeInput(@),
                                              !.fullName = sanitizeInput(@)]))
    ELSE sheet

(***************************************************************************)
(* clearAllData, Audit.js, and setupSheets, Setup.js.                      *)
(***************************************************************************)
ClearedPassword == "admin123"

\* The row clearAllData appends: seven cells, the rest of the row is empty.
ClearedAdminRow ==
    [userId |-> "USR001",
     username |-> "admin",
     passwordHash |-> hashPassword(ClearedPassword),
     fullName |-> "System Administrator",
     role |-> "Admin",
     status |-> "Active",
     failedAttempts |-> EMPTY,
     lastFailed |-> EMPTY,
     lockedUntil |-> EMPTY,
     passwordHistory |-> <<>>,
     forcePasswordChange |-> ""]

DefaultViolationTypes ==
    <<[id |-> "VT001", name |-> "Late Arrival"],
      [id |-> "VT002", name |-> "Absence Without Leave"],
      [id |-> "VT003", name |-> "Sleeping on Duty"],
      [id |-> "VT004", name |-> "Improper Uniform"],
      [id |-> "VT005", name |-> "Insubordination"]>>

\* Array.prototype.join
RECURSIVE join(_, _)
join(names, separator) ==
    IF Len(names) = 0 THEN ""
    ELSE IF Len(names) = 1 THEN names[1]
    ELSE names[1] \o separator \o join(Tail(names), separator)

\* The names of the sheets that had data rows, in the order clearAllData visits
\* them (of the sheets the model holds).
ClearedSheets ==
    LET name(rows, n) == IF Len(rows) > 0 THEN <<n>> ELSE <<>>
    IN name(users, "Users") \o name(guards, "Guards") \o name(documents, "Documents")
          \o name(performance, "Performance") \o name(violationTypes, "Violation Types")

(***************************************************************************)
(* logAudit, Audit.js.  Its body runs inside try/catch and the catch block *)
(* only logs: when the append fails the trail is as it was and nothing is  *)
(* raised.  The operator returns the trail and whether an error reached    *)
(* the caller.  A missing username is the empty string.                    *)
(***************************************************************************)
AuditRow(t, username, action, targetType, targetName, details) ==
    [auditId |-> "AUD" \o yyyyMMddHHmmss(t),
     timestamp |-> DateAt(t),
     username |-> IF username = "" THEN "System" ELSE username,
     action |-> action,
     targetType |-> targetType,
     targetName |-> targetName,
     details |-> details]

\* A variant without the try/catch: a failing append reaches the caller.
logAudit_Raises(trail, t, username, action, targetType, targetName, details, fails) ==
    IF fails THEN [trail |-> trail, raised |-> TRUE]
    ELSE [trail |-> Append(trail, AuditRow(t, username, action, targetType, targetName,
                                           details)),
          raised |-> FALSE]

logAudit(trail, t, username, action, targetType, targetName, details, fails) ==
    IF fails THEN [trail |-> trail, raised |-> FALSE]
    ELSE [trail |-> Append(trail, AuditRow(t, username, action, targetType, targetName,
                                           details)),
          raised |-> FALSE]

(***************************************************************************)
(* getRecentActivity, Audit.js.  A cell of the Timestamp column holds a    *)
(* Date or, when the sheet was edited by hand, a string.  Every data row   *)
(* becomes an entry; the entries are sorted with the comparator            *)
(* dateB - dateA and the first limit || 10 of them are returned.           *)
(***************************************************************************)
IsDate(cell) == "day" \in DOMAIN cell

\* The timestampFormatted of an entry: the formatted Date, '' for an empty cell,
\* and the cell's text when it is not a date.
TimestampFormatted(cell) ==
    IF IsDate(cell) THEN MMMddyyyyHHmmss(cell) ELSE cell.value

Activity(row) ==
    [auditId |-> row.auditId,
     timestamp |-> row.timestamp,
     timestampFormatted |-> TimestampFormatted(row.timestamp),
     username |-> row.username,
     action |-> row.action,
     targetType |-> row.targetType,
     targetName |-> row.targetName,
     details |-> row.details]

Activities(trail) == [i \in 1..Len(trail) |-> Activity(trail[i])]

\* The entry e put into a sequence sorted newest first, after the entries that
\* are not older than it (the sort is stable).
InsertNewestFirst(sorted, e) ==
    LET older == {i \in 1..Len(sorted) : Before(sorted[i].timestamp, e.timestamp)}
        k == IF older = {} THEN Len(sorted) + 1
             ELSE CHOOSE i \in older : \A j \in older : i <= j
    IN SubSeq(sorted, 1, k - 1) \o <<e>> \o SubSeq(sorted, k, Len(sorted))

RECURSIVE SortNewestFirst(_)
SortNewestFirst(activities) ==
    IF Len(activities) = 0 THEN <<>>
    ELSE InsertNewestFirst(SortNewestFirst(SubSeq(activities, 1, Len(activities) - 1)),
                           activities[Len(activities)])

\* The orders in which the entries can be put.
Orders(n) == {p \in [1..n -> 1..n] : \A i, j \in 1..n : p[i] = p[j] => i = j}

\* What activities.sort(...) can leave.  An entry whose timestamp is not a date
\* makes the comparator return NaN, and the order of an array sorted with such
\* a comparator is implementation-defined.
Sorted(activities) ==
    IF \A i \in 1..Len(activities) : IsDate(activities[i].timestamp)
    THEN {SortNewestFirst(activities)}
    ELSE {[i \in 1..Len(activities) |-> activities[p[i]]] : p \in Orders(Len(activities))}

\* A JavaScript number.
Number(n) == [type |-> "number", n |-> n]

\* limit || 10, for a limit that is a number or undefined
MaxLimit(limit) == IF limit.type = "undefined" \/ limit.n = 0 THEN 10 ELSE limit.n

\* Array.prototype.slice(0, end)
slice(array, end) ==
    LET last == IF end < 0 THEN Len(array) + end ELSE end
    IN SubSeq(array, 1, IF last > Len(array) THEN Len(array) ELSE last)

\* The values getRecentActivity(limit) can return for a trail.
getRecentActivity(trail, limit) ==
    IF Len(trail) = 0 THEN {<<>>}
    ELSE {slice(sorted, MaxLimit(limit)) : sorted \in Sorted(Activities(trail))}

(***************************************************************************)
(* archiveOldAuditLogs, Audit.js.  The rows older than the cutoff are      *)
(* listed from the bottom of the sheet up, appended in that order to the   *)
(* sheet 'Audit Archive yyyy-MM' of the current month, and then deleted    *)
(* from the trail, bottom up.  An appendRow or deleteRow that fails ends   *)
(* the call in its catch block, with the earlier writes made: fault names  *)
(* the loop and the turn at which the failure happens.                     *)
(***************************************************************************)
NoFault == [stage |-> "none", turn |-> 0]

\* timestamp instanceof Date && timestamp < cutoffDate
IsOld(row, t) ==
    /\ IsDate(row.timestamp)
    /\ Before(row.timestamp, MinusDays(DateAt(t), RETENTION_DAYS))

\* rowsToDelete: the indices of the old rows, the largest first.
RECURSIVE RowsToDelete(_, _, _)
RowsToDelete(trail, t, i) ==
    IF i = 0 THEN <<>>
    ELSE IF IsOld(trail[i], t) THEN <<i>> \o RowsToDelete(trail, t, i - 1)
    ELSE RowsToDelete(trail, t, i - 1)

ArchiveSheetName(t) == "Audit Archive " \o yyyyMM(DateAt(t))

\* The archive after the first n rows of the list were appended to it.
RECURSIVE Copied(_, _, _, _, _)
Copied(arch, trail, rows, t, n) ==
    IF n = 0 THEN arch
    ELSE Append(Copied(arch, trail, rows, t, n - 1),
                [sheet |-> ArchiveSheetName(t), row |-> trail[rows[n]]])

\* The trail after the first n rows of the list were deleted from it.
RECURSIVE Deleted(_, _, _)
Deleted(trail, rows, n) ==
    IF n = 0 THEN trail
    ELSE LET before == Deleted(trail, rows, n - 1)
         IN SubSeq(before, 1, rows[n] - 1) \o SubSeq(before, rows[n] + 1, Len(before))

ArchiveFailed == [success |-> FALSE, message |-> "Error archiving audit logs: failed"]

\* A variant that deletes each row from the trail before it appends it to the
\* archive.
archiveOldAuditLogs_DeletesFirst(trail, arch, t, fault) ==
    LET rows == RowsToDelete(trail, t, Len(trail))
    IN IF fault.stage = "none"
       THEN [result |-> [success |-> TRUE, archivedCount |-> Len(rows),
                         message |-> "Archived " \o ToString(Len(rows))
                                        \o " old audit log entries"],
             audit |-> Deleted(trail, rows, Len(rows)),
             archive |-> Copied(arch, trail, rows, t, Len(rows))]
       ELSE [result |-> ArchiveFailed,
             audit |-> Deleted(trail, rows, fault.turn),
             archive |-> Copied(arch, trail, rows, t, fault.turn - 1)]

archiveOldAuditLogs(trail, arch, t, fault) ==
    LET rows == RowsToDelete(trail, t, Len(trail))
    IN CASE fault.stage = "none" ->
               [result |-> [success |-> TRUE, archivedCount |-> Len(rows),
                            message |-> "Archived " \o ToString(Len(rows))
                                           \o " old audit log entries"],
                audit |-> Deleted(trail, rows, Len(rows)),
                archive |-> Copied(arch, trail, rows, t, Len(rows))]
         [] fault.stage = "copy" ->
               [result |-> ArchiveFailed,
                audit |-> trail,
                archive |-> Copied(arch, trail, rows, t, fault.turn - 1)]
         [] fault.stage = "delete" ->
               [result |-> ArchiveFailed,
                audit |-> Deleted(trail, rows, fault.turn - 1),
                archive |-> Copied(arch, trail, rows, t, Len(rows))]

\* The five calls of logAudit that testAuditTrail makes, 100 ms apart.
SampleEntries ==
    <<[action |-> "Add", targetType |-> "Guard", targetName |-> "John Doe",
       details |-> "Added new guard with ID: GRD20250103120000"],
      [action |-> "Update", targetType |-> "Guard", targetName |-> "Jane Smith",
       details |-> "Updated guard information"],
      [action |-> "Violation", targetType |-> "Performance Record",
       targetName |-> "Mike Johnson", details |-> "Violation added for guard"],
      [action |-> "Accomplishment", targetType |-> "Performance Record",
       targetName |-> "Sarah Williams", details |-> "Accomplishment added for guard"],
      [action |-> "Delete", targetType |-> "Guard", targetName |-> "Tom Brown",
       details |-> "Deleted guard with ID: GRD20250103110000"]>>

SLEEP_MS == 100

\* The trail after the first k calls of testAuditTrail, which starts at time t.
RECURSIVE testAuditTrail(_, _, _)
testAuditTrail(trail, t, k) ==
    IF k = 0 THEN trail
    ELSE logAudit(testAuditTrail(trail, t, k - 1), t + (k - 1) * SLEEP_MS, "admin",
                  SampleEntries[k].action, SampleEntries[k].targetType,
                  SampleEntries[k].targetName, SampleEntries[k].details, FALSE).trail

(***************************************************************************)
(* The record-keeping operations: addGuard, updateGuard, deleteGuard of    *)
(* Setup.js, the performance-record operations of Performance.js, the      *)
(* violation-type operations of Setup.js.  Each operator gives the outcome *)
(* of a call in the current state: what it returns and the sheets after    *)
(* it.  Every operation runs inside try/catch; an error raised after its   *)
(* writes leaves the writes on the sheets and returns the error result.    *)
(* A guard row keeps the id, the names and the status; a performance row   *)
(* the id, the guard and the type columns.                                 *)
(***************************************************************************)
Sheets == [guards |-> guards, documents |-> documents, performance |-> performance,
           violationTypes |-> violationTypes, audit |-> audit]

\* The outcome of a call that has made its writes and then calls logAudit.
Audited(returned, sheets, log, errorPrefix) ==
    [result |-> IF log.raised
                THEN [success |-> FALSE, message |-> errorPrefix \o "append failed"]
                ELSE returned,
     sheets |-> [sheets EXCEPT !.audit = log.trail]]

toUpperCase(s) ==
    CASE s = "Juan" -> "JUAN"
      [] s = "Cruz" -> "CRUZ"
      [] OTHER -> s

\* [firstName, middleName, lastName, suffix].filter(Boolean).join(' ')
FullName(firstName, lastName) ==
    join(SelectSeq(<<firstName, lastName>>, LAMBDA name : name # ""), " ")

\* The first row of a sheet whose first cell is the id, 0 if none.
FindRow(rows, id) ==
    LET hits == {i \in 1..Len(rows) : rows[i].id = id}
    IN IF hits = {} THEN 0 ELSE CHOOSE i \in hits : \A j \in hits : i <= j

\* sheet.deleteRow
DeleteRow(rows, i) == SubSeq(rows, 1, i - 1) \o SubSeq(rows, i + 1, Len(rows))

addGuard(guardData, username, auditFails) ==
    LET guardId == "GRD" \o yyyyMMddHHmmss(now)
        firstName == toUpperCase(guardData.firstName)
        lastName == toUpperCase(guardData.lastName)
        fullName == FullName(firstName, lastName)
        written == [Sheets EXCEPT
                       !.guards = Append(@, [id |-> guardId, firstName |-> firstName,
                                             lastName |-> lastName,
                                             status |-> IF guardData.status = ""
                                                        THEN "Active"
                                                        ELSE guardData.status]),
                       !.documents = Append(@, [id |-> guardId, guardName |-> fullName])]
    IN Audited([success |-> TRUE, guardId |-> guardId,
                message |-> "Guard added successfully!"],
               written,
               logAudit(audit, now, username, "Add", "Guard", fullName,
                        "Added new guard with ID: " \o guardId, auditFails),
               "Error adding guard: ")

updateGuard(guardId, guardData, username, auditFails) ==
    LET i == FindRow(guards, guardId)
        d == FindRow(documents, guardId)
        firstName == toUpperCase(guardData.firstName)
        lastName == toUpperCase(guardData.lastName)
        fullName == FullName(firstName, lastName)
        written == [Sheets EXCEPT
                       !.guards[i] = [id |-> guardId, firstName |-> firstName,
                                      lastName |-> lastName,
                                      status |-> IF guardData.status = ""
                                                 THEN "Active" ELSE guardData.status],
                       !.documents = IF d # 0
                                     THEN [@ EXCEPT ![d].guardName = fullName]
                                     ELSE Append(@, [id |-> guardId,
                                                     guardName |-> fullName])]
    IN IF i = 0
       THEN [result |-> [success |-> FALSE, message |-> "Guard not found"],
             sheets |-> Sheets]
       ELSE Audited([success |-> TRUE, message |-> "Guard updated successfully!"],
                    written,
                    logAudit(audit, now, username, "Update", "Guard", fullName,
                             "Updated guard information", auditFails),
                    "Error updating guard: ")

deleteGuard(guardId, username, auditFails) ==
    LET i == FindRow(guards, guardId)
        d == FindRow(documents, guardId)
        guardName == FullName(guards[i].firstName, guards[i].lastName)
        written == [Sheets EXCEPT
                       !.guards = DeleteRow(@, i),
                       !.documents = IF d # 0 THEN DeleteRow(@, d) ELSE @]
    IN IF ~hasAdminPermission(users, username)
       THEN [result |-> [success |-> FALSE,
                         message |-> "Permission denied. Admin access required."],
             sheets |-> Sheets]
       ELSE IF i = 0
       THEN [result |-> [success |-> FALSE, message |-> "Guard not found"],
             sheets |-> Sheets]
       ELSE Audited([success |-> TRUE, message |-> "Guard deleted successfully"],
                    written,
                    logAudit(audit, now, username, "Delete", "Guard", guardName,
                             "Deleted guard with ID: " \o guardId, auditFails),
                    "Error deleting guard: ")

\* performanceData.type === 'Violation' ? 'Violation' : 'Accomplishment'
ActionType(performanceData) ==
    IF performanceData.type = "Violation" THEN "Violation" ELSE "Accomplishment"

\* The Type of Violation and Violation Sanction cells.
ViolationCell(performanceData, value) ==
    IF performanceData.type = "Violation" THEN value ELSE "N/A"

addPerformanceRecord(performanceData, username, auditFails) ==
    LET recordId == "PERF" \o yyyyMMddHHmmss(now)
        actionType == ActionType(performanceData)
        written == [Sheets EXCEPT
                       !.performance =
                           Append(@, [id |-> recordId,
                                      guardId |-> performanceData.guardId,
                                      guardName |-> performanceData.guardName,
                                      type |-> performanceData.type,
                                      typeOfViolation |->
                                          ViolationCell(performanceData,
                                                        performanceData.typeOfViolation),
                                      violationSanction |->
                                          ViolationCell(performanceData,
                                                        performanceData.violationSanction)])]
    IN Audited([success |-> TRUE, recordId |-> recordId,
                message |-> "Performance record added successfully!"],
               written,
               logAudit(audit, now, username, actionType, "Performance Record",
                        performanceData.guardName, actionType \o " added for guard",
                        auditFails),
               "Error adding performance record: ")

updatePerformanceRecord(recordId, performanceData, username, auditFails) ==
    LET i == FindRow(performance, recordId)
        actionType == ActionType(performanceData)
        written == [Sheets EXCEPT
                       !.performance[i] =
                           [@ EXCEPT !.type = performanceData.type,
                                     !.typeOfViolation =
                                         ViolationCell(performanceData,
                                                       performanceData.typeOfViolation),
                                     !.violationSanction =
                                         ViolationCell(performanceData,
                                                       performanceData.violationSanction)]]
    IN IF i = 0
       THEN [result |-> [success |-> FALSE, message |-> "Record not found"],
             sheets |-> Sheets]
       ELSE Audited([success |-> TRUE,
                     message |-> "Performance record updated successfully!"],
                    written,
                    logAudit(audit, now, username, "Update", actionType,
                             performance[i].guardName,
                             "Updated " \o actionType \o " record", auditFails),
                    "Error updating record: ")

deletePerformanceRecord(recordId, username, auditFails) ==
    LET i == FindRow(performance, recordId)
        recordType == performance[i].type
        written == [Sheets EXCEPT !.performance = DeleteRow(@, i)]
    IN IF i = 0
       THEN [result |-> [success |-> FALSE, message |-> "Record not found"],
             sheets |-> Sheets]
       ELSE Audited([success |-> TRUE,
                     message |-> "Performance record deleted successfully"],
                    written,
                    logAudit(audit, now, username, "Delete", recordType,
                             performance[i].guardName,
                             "Deleted " \o recordType \o " record", auditFails),
                    "Error deleting record: ")

\* String(lastRow).padStart(3, '0')
padStart3(n) ==
    IF n < 10 THEN "00" \o ToString(n)
    ELSE IF n < 100 THEN "0" \o ToString(n)
    ELSE ToString(n)

\* The id comes from the number of the last row, the header row included.
addViolationType(name) ==
    LET newId == "VT" \o padStart3(Len(violationTypes) + 1)
    IN [result |-> [success |-> TRUE, message |-> "Violation type added successfully",
                    id |-> newId],
        sheets |-> [Sheets EXCEPT !.violationTypes = Append(@, [id |-> newId,
                                                               name |-> name])]]

updateViolationType(violationId, name) ==
    LET i == FindRow(violationTypes, violationId)
    IN IF i = 0
       THEN [result |-> [success |-> FALSE, message |-> "Violation type not found"],
             sheets |-> Sheets]
       ELSE [result |-> [success |-> TRUE,
                         message |-> "Violation type updated successfully"],
             sheets |-> [Sheets EXCEPT !.violationTypes[i].name = name]]

deleteViolationType(violationId) ==
    LET i == FindRow(violationTypes, violationId)
    IN IF i = 0
       THEN [result |-> [success |-> FALSE, message |-> "Violation type not found"],
             sheets |-> Sheets]
       ELSE [result |-> [success |-> TRUE,
                         message |-> "Violation type deleted successfully"],
             sheets |-> [Sheets EXCEPT !.violationTypes = DeleteRow(@, i)]]

(***************************************************************************)
(* The initial state: the Users sheet as setupSheets leaves it, with one   *)
(* account added by the administrator; an empty cache.                     *)
(***************************************************************************)
InitTrail(trail) ==
    /\ dayZero = 0
    /\ users = <<DefaultAdminRow, AddedUserRow(GuardUserData.userId, GuardUserData)>>
    /\ cache = <<>>
    /\ now = 0
    /\ uuidCount = 0
    /\ advances = 0
    /\ call = [op |-> "none"]
    /\ result = [type |-> "undefined"]
    /\ sessionLog = {}
    /\ csrfLog = <<>>
    /\ invalidated = {}
    /\ guards = <<>>
    /\ documents = <<>>
    /\ performance = <<>>
    /\ violationTypes = DefaultViolationTypes
    /\ audit = trail
    /\ faultCount = 0
    /\ archive = <<>>
    /\ pending = {}
    /\ wrongVerified = 0

Init == InitTrail(<<>>)

(***************************************************************************)
(* The calls.                                                              *)
(***************************************************************************)
AuthenticateUserWith(username, password, fault, maxUuid) ==
    LET outcome == AuthOutcome(users, now, username, password, fault)
        i == FindUser(users, username)
        k == WriteFaultIndex(fault)
        wrote == outcome = "error" /\ fault \in WriteFaults
        session == IF fault \in {"sessionCache", "bothCaches"}
                   THEN generateSessionTokenFails(cache, now, uuidCount, users[i].username)
                   ELSE generateSessionToken(cache, now, uuidCount, users[i].username)
        csrf == IF fault \in {"csrfCache", "bothCaches"}
                THEN generateCsrfTokenFails(session.cache, now, session.uuidCount,
                                            users[i].username)
                ELSE generateCsrfToken(session.cache, now, session.uuidCount,
                                       users[i].username)
    IN /\ outcome = "success" => uuidCount + 2 <= maxUuid
       /\ fault # "none" => faultCount < MaxFaults
       /\ faultCount' = IF fault = "none" THEN faultCount ELSE faultCount + 1
       /\ users' = IF wrote
                   THEN [users EXCEPT ![i] =
                            RowAfterWrites(@, AuthWrites(@, now,
                                AuthBranch(users, now, username, password)), k - 1)]
                   ELSE IF outcome \in {"error", "noSheet"} THEN users
                   ELSE AuthUsers(users, now, username, password)
       /\ IF outcome = "success"
          THEN /\ result' = AuthResult(users, now, username, password,
                                       session.token, csrf.token)
               /\ cache' = csrf.cache
               /\ uuidCount' = csrf.uuidCount
               /\ sessionLog' = sessionLog \cup
                     IF session.token = "" THEN {}
                     ELSE {[token |-> session.token, username |-> users[i].username,
                            at |-> now]}
               /\ csrfLog' =
                     IF csrf.token = "" THEN csrfLog
                     ELSE Append(csrfLog, [token |-> csrf.token,
                                           username |-> users[i].username, at |-> now])
          ELSE /\ result' = AuthFaultResult(users, now, username, password, fault)
               /\ UNCHANGED <<cache, uuidCount, sessionLog, csrfLog>>
       /\ call' = [op |-> "authenticateUser", username |-> username,
                   password |-> password, at |-> now,
                   row |-> IF i = 0 THEN [userId |-> ""] ELSE users[i],
                   verified |-> outcome \in {"success", "failed", "lockout"} \/ wrote,
                   fault |-> fault]
       /\ UNCHANGED <<now, advances, invalidated>>
       /\ UNCHANGED <<records, aside>>

\* The call when the sheet and the cache work.
AuthenticateUser(username, password) ==
    AuthenticateUserWith(username, password, "none", MaxUuid)

GenerateCsrfToken(username) ==
    LET csrf == generateCsrfToken(cache, now, uuidCount, username)
    IN /\ uuidCount + 1 <= MaxUuid
       /\ cache' = csrf.cache
       /\ uuidCount' = csrf.uuidCount
       /\ csrfLog' = Append(csrfLog, [token |-> csrf.token, username |-> username, at |-> now])
       /\ call' = [op |-> "generateCsrfToken", username |-> username, at |-> now]
       /\ result' = [type |-> "string", value |-> csrf.token]
       /\ UNCHANGED <<users, now, advances, sessionLog, invalidated>>
       /\ UNCHANGED <<records, aside, faultCount>>

ValidateCsrfToken(username, token) ==
    /\ call' = [op |-> "validateCsrfToken", username |-> username, token |-> token,
                at |-> now]
    /\ result' = [type |-> "boolean", value |-> validateCsrfToken(cache, now, username, token)]
    /\ UNCHANGED <<users, cache, now, uuidCount, advances, sessionLog, csrfLog, invalidated>>
    /\ UNCHANGED <<records, aside, faultCount>>

ValidateSessionToken(token) ==
    /\ call' = [op |-> "validateSessionToken", token |-> token, at |-> now]
    /\ result' = validateSessionToken(cache, now, token)
    /\ UNCHANGED <<users, cache, now, uuidCount, advances, sessionLog, csrfLog, invalidated>>
    /\ UNCHANGED <<records, aside, faultCount>>

InvalidateSessionToken(token) ==
    /\ cache' = invalidateSessionToken(cache, token)
    /\ invalidated' = invalidated \cup ({token} \cap {s.token : s \in sessionLog})
    /\ call' = [op |-> "invalidateSessionToken", token |-> token, at |-> now]
    /\ result' = [type |-> "undefined"]
    /\ UNCHANGED <<users, now, uuidCount, advances, sessionLog, csrfLog>>
    /\ UNCHANGED <<records, aside, faultCount>>

ChangePassword(username, currentPassword, newPassword) ==
    /\ users' = changePasswordSheet(users, username, currentPassword, newPassword)
    /\ call' = [op |-> "changePassword", username |-> username,
                currentPassword |-> currentPassword, newPassword |-> newPassword,
                at |-> now]
    /\ result' = changePasswordResult(users, username, currentPassword, newPassword)
    /\ UNCHANGED <<cache, now, uuidCount, advances, sessionLog, csrfLog, invalidated>>
    /\ UNCHANGED <<records, aside, faultCount>>

UpdateUser(userData) ==
    /\ users' = updateUserSheet(users, userData)
    /\ call' = [op |-> "updateUser", userData |-> userData, at |-> now]
    /\ result' = updateUserResult(users, userData)
    /\ UNCHANGED <<cache, now, uuidCount, advances, sessionLog, csrfLog, invalidated>>
    /\ UNCHANGED <<records, aside, faultCount>>

AddUser(userData, currentUsername) ==
    /\ Len(users) < MaxUsers
    /\ users' = addUserSheet(users, now, userData, currentUsername)
    /\ call' = [op |-> "addUser", userData |-> userData, actor |-> currentUsername,
                at |-> now]
    /\ result' = addUserResult(users, now, userData, currentUsername)
    /\ UNCHANGED <<cache, now, uuidCount, advances, sessionLog, csrfLog, invalidated>>
    /\ UNCHANGED <<records, aside, faultCount>>

ClearAllData ==
    /\ users' = <<ClearedAdminRow>>
    /\ guards' = <<>>
    /\ documents' = <<>>
    /\ performance' = <<>>
    /\ violationTypes' = <<>>
    /\ call' = [op |-> "clearAllData", at |-> now]
    /\ result' = [success |-> TRUE,
                  message |-> "All data cleared successfully. Cleared sheets: "
                                 \o join(ClearedSheets, ", "),
                  clearedCount |-> Len(ClearedSheets)]
    /\ UNCHANGED <<cache, now, uuidCount, advances, sessionLog, csrfLog, invalidated>>
    /\ UNCHANGED <<audit, aside, faultCount>>

\* setupSheets on a spreadsheet that has its sheets: it fills the Users sheet and
\* the Violation Types sheet when they hold no data row.
SetupSheets ==
    /\ users' = IF Len(users) = 0 THEN <<DefaultAdminRow>> ELSE users
    /\ violationTypes' =
          IF Len(violationTypes) = 0 THEN DefaultViolationTypes ELSE violationTypes
    /\ call' = [op |-> "setupSheets", at |-> now]
    /\ result' = [success |-> TRUE,
                  message |-> "Setup complete! All sheets created successfully. Default login: admin / ChangeMe2025!"]
    /\ UNCHANGED <<cache, now, uuidCount, advances, sessionLog, csrfLog, invalidated>>
    /\ UNCHANGED <<guards, documents, performance, audit, aside, faultCount>>

\* resetDatabase: every sheet named in CONFIG.SHEET_NAMES is deleted, the Audit
\* Trail sheet among them, and setupSheets builds them again.  The spreadsheet
\* holds some other sheet, as deleteSheet needs to delete the last of them; the
\* 'Audit Archive' sheets are not named in CONFIG.SHEET_NAMES.
ResetDatabase ==
    /\ users' = <<DefaultAdminRow>>
    /\ guards' = <<>>
    /\ documents' = <<>>
    /\ performance' = <<>>
    /\ violationTypes' = DefaultViolationTypes
    /\ audit' = <<>>
    /\ call' = [op |-> "resetDatabase", at |-> now]
    /\ result' = [success |-> TRUE,
                  message |-> "Database reset complete! " \o ToString(SheetCount)
                                 \o " sheets deleted and " \o ToString(SheetCount)
                                 \o " sheets recreated. Default login: admin / ChangeMe2025!",
                  deletedCount |-> SheetCount,
                  createdCount |-> SheetCount]
    /\ UNCHANGED <<cache, now, uuidCount, advances, sessionLog, csrfLog, invalidated,
                   aside, faultCount>>

\* A call of a record-keeping operation: c names the operation and its arguments,
\* outcome is the operator's value for them.
RecordCall(c, outcome) ==
    /\ c.auditFails => faultCount < MaxFaults
    /\ faultCount' = IF c.auditFails THEN faultCount + 1 ELSE faultCount
    /\ Len(outcome.sheets.audit) <= MaxAudit
    /\ guards' = outcome.sheets.guards
    /\ documents' = outcome.sheets.documents
    /\ performance' = outcome.sheets.performance
    /\ violationTypes' = outcome.sheets.violationTypes
    /\ audit' = outcome.sheets.audit
    /\ call' = [c EXCEPT !.at = now]
    /\ result' = outcome.result
    /\ UNCHANGED <<users, cache, now, uuidCount, advances, sessionLog, csrfLog,
                   invalidated, aside>>

AddGuard(guardData, username, auditFails) ==
    /\ Len(guards) + Len(performance) < MaxRows
    /\ RecordCall([op |-> "addGuard", guardData |-> guardData, actor |-> username,
                   auditFails |-> auditFails, at |-> 0],
                  addGuard(guardData, username, auditFails))

UpdateGuard(guardId, guardData, username, auditFails) ==
    RecordCall([op |-> "updateGuard", guardId |-> guardId, guardData |-> guardData,
                actor |-> username, auditFails |-> auditFails, at |-> 0],
               updateGuard(guardId, guardData, username, auditFails))

DeleteGuard(guardId, username, auditFails) ==
    RecordCall([op |-> "deleteGuard", guardId |-> guardId, actor |-> username,
                auditFails |-> auditFails, at |-> 0],
               deleteGuard(guardId, username, auditFails))

AddPerformanceRecord(performanceData, username, auditFails) ==
    /\ Len(guards) + Len(performance) < MaxRows
    /\ RecordCall([op |-> "addPerformanceRecord", performanceData |-> performanceData,
                   actor |-> username, auditFails |-> auditFails, at |-> 0],
                  addPerformanceRecord(performanceData, username, auditFails))

UpdatePerformanceRecord(recordId, performanceData, username, auditFails) ==
    RecordCall([op |-> "updatePerformanceRecord", recordId |-> recordId,
                performanceData |-> performanceData, actor |-> username,
                auditFails |-> auditFails, at |-> 0],
               updatePerformanceRecord(recordId, performanceData, username, auditFails))

DeletePerformanceRecord(recordId, username, auditFails) ==
    RecordCall([op |-> "deletePerformanceRecord", recordId |-> recordId,
                actor |-> username, auditFails |-> auditFails, at |-> 0],
               deletePerformanceRecord(recordId, username, auditFails))

AddViolationType(name) ==
    /\ Len(violationTypes) <= Len(DefaultViolationTypes)
    /\ RecordCall([op |-> "addViolationType", name |-> name, auditFails |-> FALSE,
                   at |-> 0],
                  addViolationType(name))

UpdateViolationType(violationId, name) ==
    RecordCall([op |-> "updateViolationType", violationId |-> violationId,
                name |-> name, auditFails |-> FALSE, at |-> 0],
               updateViolationType(violationId, name))

DeleteViolationType(violationId) ==
    RecordCall([op |-> "deleteViolationType", violationId |-> violationId,
                auditFails |-> FALSE, at |-> 0],
               deleteViolationType(violationId))

\* getRecentActivity reads the Audit Trail sheet.
GetRecentActivity(limit) ==
    /\ \E activities \in getRecentActivity(audit, limit) :
          result' = [type |-> "activities", value |-> activities]
    /\ call' = [op |-> "getRecentActivity", limit |-> limit, at |-> now]
    /\ UNCHANGED <<users, cache, now, uuidCount, advances, sessionLog, csrfLog,
                   invalidated, records, aside, faultCount>>

\* testAuditTrail: five audit entries, with Utilities.sleep(100) between them.
TestAuditTrailUpTo(maxTrail) ==
    /\ Len(audit) + Len(SampleEntries) <= maxTrail
    /\ audit' = testAuditTrail(audit, now, Len(SampleEntries))
    /\ now' = now + (Len(SampleEntries) - 1) * SLEEP_MS
    /\ call' = [op |-> "testAuditTrail", at |-> now]
    /\ result' = [success |-> TRUE,
                  message |-> "Created 5 sample audit entries successfully!"]
    /\ UNCHANGED <<users, cache, uuidCount, advances, sessionLog, csrfLog, invalidated,
                   guards, documents, performance, violationTypes, aside, faultCount>>

TestAuditTrail == TestAuditTrailUpTo(MaxTrail)

\* archiveOldAuditLogs, run by hand or by a trigger.  A fault is a failure of
\* the turn-th appendRow or of the turn-th deleteRow.
ArchiveOldAuditLogs(fault) ==
    LET outcome == archiveOldAuditLogs(audit, archive, now, fault)
    IN /\ fault.stage # "none" =>
             /\ faultCount < MaxFaults
             /\ fault.turn \in 1..Len(RowsToDelete(audit, now, Len(audit)))
       /\ faultCount' = IF fault.stage # "none" THEN faultCount + 1 ELSE faultCount
       /\ audit' = outcome.audit
       /\ archive' = outcome.archive
       /\ call' = [op |-> "archiveOldAuditLogs", fault |-> fault, at |-> now]
       /\ result' = outcome.result
       /\ UNCHANGED <<users, cache, now, uuidCount, advances, sessionLog, csrfLog,
                      invalidated, guards, documents, performance, violationTypes,
                      pending, wrongVerified, dayZero>>

\* Days pass between two calls, while nothing in the cache or on the Users sheet
\* holds a time.
AdvanceDays(days) ==
    /\ advances < MaxAdvances
    /\ cache = <<>>
    /\ \A i \in 1..Len(users) :
          users[i].lockedUntil = EMPTY /\ users[i].lastFailed = EMPTY
    /\ dayZero' = dayZero + days
    /\ advances' = advances + 1
    /\ UNCHANGED <<users, cache, now, uuidCount, call, result, sessionLog, csrfLog,
                   invalidated, records, faultCount, archive, pending,
                   wrongVerified>>

\* Time passes between two calls.
Advance(d) ==
    /\ advances < MaxAdvances
    /\ now' = now + d
    /\ advances' = advances + 1
    /\ UNCHANGED <<users, cache, uuidCount, call, result, sessionLog, csrfLog, invalidated>>
    /\ UNCHANGED <<records, aside, faultCount>>

(***************************************************************************)
(* The inputs of the calls.                                                *)
(***************************************************************************)
StoredUsernames == {users[i].username : i \in 1..Len(users)}

\* Well-formed credentials: the two accounts, each password right for one
\* account and wrong for the other.
LoginUsernames == {Str("admin"), Str("guard1")}
LoginPasswords == {Str(AdminPassword), Str(GuardPassword)}

\* Every kind of input, aimed at the administrator's account: well-formed,
\* differing in case, unknown, missing, not a string, too long.
UsernameInputs ==
    {Str("admin"), Str("Admin"), Str("nobody"), Str(""), Str(Long51), Undefined, Num7}
PasswordInputs ==
    {Str(AdminPassword), Str(GuardPassword), Str(""), Str(Long129), Undefined, Num7}

\* updateUser as the user-management form sends it when the administrator
\* deactivates or reactivates an account that is not an administrator's.
StatusUpdates ==
    {[userId |-> users[i].userId, username |-> users[i].username, password |-> "",
      fullName |-> users[i].fullName, role |-> users[i].role, status |-> s] :
        i \in {j \in 1..Len(users) : users[j].role # "Admin"},
        s \in {"Active", "Inactive"}}

\* The tokens a caller can present: those issued so far, an empty one, a made-up
\* one.  (A UUID is fresh: no caller presents it before it is issued.)
SessionTokenInputs == {"", "bogus"} \cup {s.token : s \in sessionLog}
CsrfTokenInputs == {"", "bogus"} \cup {csrfLog[i].token : i \in 1..Len(csrfLog)}

\* One millisecond, and one millisecond short of the lockout duration.
LockoutSteps == {1, LOCKOUT_DURATION_MINUTES * MS_PER_MINUTE - 1}

\* One millisecond, and one millisecond short of each time-to-live.
TokenSteps ==
    {1, CSRF_EXPIRY_SECONDS * 1000 - 1, SESSION_TIMEOUT_MINUTES * 60 * 1000 - 1}

(***************************************************************************)
(* Spec: logins with well-formed credentials against the lockout policy,   *)
(* with an account being deactivated and reactivated.                      *)
(***************************************************************************)
Next ==
    \/ \E username \in LoginUsernames, password \in LoginPasswords :
          AuthenticateUser(username, password)
    \/ \E userData \in StatusUpdates : UpdateUser(userData)
    \/ \E d \in LockoutSteps : Advance(d)

Spec == Init /\ [][Next]_vars

(***************************************************************************)
(* SpecInputs: logins with every kind of input.                            *)
(***************************************************************************)
NextInputs ==
    \/ \E username \in UsernameInputs, password \in PasswordInputs :
          AuthenticateUser(username, password)
    \/ \E d \in LockoutSteps : Advance(d)

SpecInputs == Init /\ [][NextInputs]_vars

(***************************************************************************)
(* SpecTokens: successful logins and the token functions, over the         *)
(* lifetimes of the tokens.                                                *)
(***************************************************************************)
NextTokens ==
    \/ \E username \in StoredUsernames :
          AuthenticateUser(Str(username), Str(PasswordOf(username)))
    \/ \E username \in StoredUsernames : GenerateCsrfToken(username)
    \/ \E username \in StoredUsernames, token \in CsrfTokenInputs :
          ValidateCsrfToken(username, token)
    \/ \E token \in SessionTokenInputs : ValidateSessionToken(token)
    \/ \E token \in SessionTokenInputs : InvalidateSessionToken(token)
    \/ \E d \in TokenSteps : Advance(d)

SpecTokens == Init /\ [][NextTokens]_vars

(***************************************************************************)
(* SpecSessions: several logins, of one account and of two, with the       *)
(* token functions called in between.                                      *)
(***************************************************************************)
SessionSteps == {CSRF_EXPIRY_SECONDS * 1000 - 1}

NextSessions ==
    \/ \E username \in StoredUsernames :
          AuthenticateUserWith(Str(username), Str(PasswordOf(username)), "none",
                               MaxSessionUuid)
    \/ \E username \in StoredUsernames : GenerateCsrfToken(username)
    \/ \E token \in SessionTokenInputs : ValidateSessionToken(token)
    \/ \E token \in SessionTokenInputs : InvalidateSessionToken(token)
    \/ \E d \in SessionSteps : Advance(d)

SpecSessions == Init /\ [][NextSessions]_vars

(***************************************************************************)
(* SpecPasswords: password changes and logins.  Each caller gives as       *)
(* current password the one the account has, or one it does not have.  The *)
(* administrator tries as new password the default one, every password of  *)
(* the account's history, the first fresh password that is not in the      *)
(* history, and two that validatePassword refuses; the added account tries *)
(* its own and one other.                                                  *)
(***************************************************************************)
Passwords ==
    FreshPasswords \cup {AdminPassword, GuardPassword, ShortPassword, LowercasePassword}

\* The password an account has now: the one its stored hash is the hash of.
CurrentPassword(username) ==
    LET i == FindUserByName(users, username)
    IN CHOOSE password \in Passwords : hashPassword(password) = users[i].passwordHash

FreshPasswordOrder == <<"NewPass01", "NewPass02", "NewPass03", "NewPass04", "NewPass05">>

AdminNewPasswords ==
    LET history == users[FindUserByName(users, "admin")].passwordHistory
        unused == {k \in 1..Len(FreshPasswordOrder) :
                      ~includes(history, hashPassword(FreshPasswordOrder[k]))}
    IN {AdminPassword, ShortPassword, LowercasePassword}
          \cup {password \in FreshPasswords : includes(history, hashPassword(password))}
          \cup {FreshPasswordOrder[k] : k \in {j \in unused : \A l \in unused : j <= l}}

GuardNewPasswords == {GuardPassword, "NewPass01"}

NextPasswords ==
    \/ \E new \in AdminNewPasswords :
          ChangePassword("admin", CurrentPassword("admin"), new)
    \/ ChangePassword("admin", GuardPassword, "NewPass01")
    \/ \E new \in GuardNewPasswords :
          ChangePassword("guard1", CurrentPassword("guard1"), new)
    \/ \E username \in StoredUsernames :
          AuthenticateUserWith(Str(username), Str(CurrentPassword(username)), "none",
                               MaxSessionUuid)

SpecPasswords == Init /\ [][NextPasswords]_vars

(***************************************************************************)
(* SpecUsers: the administrator and a Viewer manage accounts, within one   *)
(* second and across seconds.                                              *)
(***************************************************************************)
NewUsernames == {"clerk", "Officer", "Guard1", "<Admin>"}

NewUserInputs ==
    {[username |-> username, password |-> GuardPassword, fullName |-> "New User",
      role |-> "Viewer", status |-> "Active"] : username \in NewUsernames}

\* updateUser as the user-management form sends it when an account is renamed.
RenameUpdates ==
    {[userId |-> users[i].userId, username |-> username, password |-> "",
      fullName |-> users[i].fullName, role |-> users[i].role,
      status |-> users[i].status] :
        i \in 1..Len(users), username \in {"Clerk", "officer", "guard2"}}

UserSteps == {1000}

NextUsers ==
    \/ \E userData \in NewUserInputs, currentUsername \in {"admin", "guard1"} :
          AddUser(userData, currentUsername)
    \/ \E userData \in RenameUpdates : UpdateUser(userData)
    \/ ClearAllData
    \/ SetupSheets
    \/ \E d \in UserSteps : Advance(d)

SpecUsers == Init /\ [][NextUsers]_vars

(***************************************************************************)
(* SpecRecords: the administrator, a Viewer and a caller that gives no     *)
(* username keep guards, performance records and violation types, with     *)
(* the Audit Trail sheet accepting or refusing the append.  The calls are  *)
(* made within one second of the clock.                                    *)
(***************************************************************************)
Actors == {"admin", "guard1"}
NoUsername == ""

NewGuard == [firstName |-> "Juan", lastName |-> "Cruz", status |-> ""]
EditedGuard == [firstName |-> "Juan", lastName |-> "", status |-> "Inactive"]

GuardIds == {guards[i].id : i \in 1..Len(guards)} \cup {"GRD0"}

NewRecord == [guardId |-> "GRD0", guardName |-> "JUAN CRUZ", type |-> "Violation",
              typeOfViolation |-> "Late Arrival", violationSanction |-> "Verbal Warning"]
EditedRecord == [guardId |-> "GRD0", guardName |-> "JUAN CRUZ",
                 type |-> "Accomplishment", typeOfViolation |-> "",
                 violationSanction |-> ""]

RecordIds == {performance[i].id : i \in 1..Len(performance)} \cup {"PERF0"}

ViolationIds == {"VT006", "VT007"}

NextRecords ==
    \/ \E username \in Actors \cup {NoUsername}, auditFails \in BOOLEAN :
          AddGuard(NewGuard, username, auditFails)
    \/ \E guardId \in GuardIds, username \in Actors, auditFails \in BOOLEAN :
          UpdateGuard(guardId, EditedGuard, username, auditFails)
    \/ \E guardId \in GuardIds, username \in Actors, auditFails \in BOOLEAN :
          DeleteGuard(guardId, username, auditFails)
    \/ \E username \in Actors, auditFails \in BOOLEAN :
          AddPerformanceRecord(NewRecord, username, auditFails)
    \/ \E recordId \in RecordIds, username \in Actors, auditFails \in BOOLEAN :
          UpdatePerformanceRecord(recordId, EditedRecord, username, auditFails)
    \/ \E recordId \in RecordIds, username \in Actors, auditFails \in BOOLEAN :
          DeletePerformanceRecord(recordId, username, auditFails)
    \/ AddViolationType("Smoking on Duty")
    \/ \E violationId \in ViolationIds : UpdateViolationType(violationId, "Tardiness")
    \/ \E violationId \in ViolationIds : DeleteViolationType(violationId)

SpecRecords == Init /\ [][NextRecords]_vars

(***************************************************************************)
(* SpecActivity: testAuditTrail fills the Audit Trail sheet and            *)
(* getRecentActivity reads it.                                             *)
(***************************************************************************)
Limits == {Undefined} \cup {Number(n) : n \in {0, 1, 3, 7, 12}}

ActivitySteps == {1000}

NextActivity ==
    \/ TestAuditTrail
    \/ \E limit \in Limits : GetRecentActivity(limit)
    \/ \E d \in ActivitySteps : Advance(d)

SpecActivity == Init /\ [][NextActivity]_vars

(***************************************************************************)
(* SpecEdited: getRecentActivity reads an Audit Trail sheet that was       *)
(* edited by hand in the spreadsheet: of the rows logAudit wrote, some     *)
(* were cleared and some had text typed into their Timestamp cell.  The   *)
(* last row is not a cleared one: getDataRange ends at the last row that   *)
(* has content.                                                            *)
(***************************************************************************)
\* A row whose cells were cleared: getValues gives '' for each.
ClearedRow ==
    [auditId |-> "", timestamp |-> Str(""), username |-> "", action |-> "",
     targetType |-> "", targetName |-> "", details |-> ""]

\* A row whose Timestamp cell holds text that is not a date.
Retyped(row) == [row EXCEPT !.timestamp = Str("yesterday")]

\* The first n rows testAuditTrail writes when called at time 0.
WrittenRows(n) ==
    [i \in 1..n |-> AuditRow((i - 1) * SLEEP_MS, "admin", SampleEntries[i].action,
                             SampleEntries[i].targetType, SampleEntries[i].targetName,
                             SampleEntries[i].details)]

EditedTrails ==
    UNION {{[i \in 1..n |-> IF i \in cleared THEN ClearedRow
                            ELSE IF i \in retyped THEN Retyped(WrittenRows(n)[i])
                            ELSE WrittenRows(n)[i]]
              : cleared \in SUBSET (1..(n - 1)), retyped \in SUBSET (1..n)}
           : n \in 1..MaxEdited}

EditedLimits == {Undefined, Number(1), Number(2)}

InitEdited ==
    /\ dayZero = 0
    /\ \E trail \in EditedTrails : InitTrail(trail)

NextEdited == \E limit \in EditedLimits : GetRecentActivity(limit)

SpecEdited == InitEdited /\ [][NextEdited]_vars

(***************************************************************************)
(* SpecArchive: testAuditTrail writes events, a year or a day passes, and  *)
(* archiveOldAuditLogs runs, to its end or until a write fails.            *)
(***************************************************************************)
ArchiveFaults ==
    {NoFault} \cup {[stage |-> stage, turn |-> turn] :
                       stage \in {"copy", "delete"}, turn \in 1..MaxLive}

DaySteps == {1, RETENTION_DAYS}

NextArchive ==
    \/ TestAuditTrailUpTo(MaxLive)
    \/ \E fault \in ArchiveFaults : ArchiveOldAuditLogs(fault)
    \/ \E days \in DaySteps : AdvanceDays(days)

SpecArchive == Init /\ [][NextArchive]_vars

(***************************************************************************)
(* SpecTrail: what happens to the events of the audit trail while guards   *)
(* are kept, the trail is archived and the database is cleared, set up or  *)
(* reset.                                                                  *)
(***************************************************************************)
NextTrail ==
    \/ \E auditFails \in BOOLEAN : AddGuard(NewGuard, "admin", auditFails)
    \/ \E guardId \in GuardIds : DeleteGuard(guardId, "admin", FALSE)
    \/ \E fault \in ArchiveFaults : ArchiveOldAuditLogs(fault)
    \/ ClearAllData
    \/ SetupSheets
    \/ ResetDatabase
    \/ \E days \in DaySteps : AdvanceDays(days)

SpecTrail == Init /\ [][NextTrail]_vars

(***************************************************************************)
(* SpecFaults: logins while the spreadsheet or the cache fails.            *)
(***************************************************************************)
Faults ==
    {"none", "open", "noSheet", "read", "write1", "write2", "write3",
     "sessionCache", "csrfCache", "bothCaches"}

\* The administrator's account with its password and with another one; a username
\* no account has and a missing username.
FaultPasswords == {Str(AdminPassword), Str(GuardPassword)}
FaultUsernames == {Str("nobody"), Undefined}

\* One step of the clock: the lockout duration.
FaultSteps == {LOCKOUT_DURATION_MINUTES * MS_PER_MINUTE}

NextFaults ==
    \/ \E password \in FaultPasswords, fault \in Faults :
          AuthenticateUserWith(Str("admin"), password, fault, MaxUuid)
    \/ \E username \in FaultUsernames, fault \in Faults :
          AuthenticateUserWith(username, Str(AdminPassword), fault, MaxUuid)
    \/ \E d \in FaultSteps : Advance(d)

SpecFaults == Init /\ [][NextFaults]_vars

(***************************************************************************)
(* What the claims are stated with.                                        *)
(***************************************************************************)
\* The step is a call of authenticateUser (a step that moves the clock or makes
\* another call is not).
AuthStep == call'.op = "authenticateUser" /\ advances' = advances

\* The step is a call of authenticateUser that names account i and passes
\* well-formed credentials (a string of 1..50 and a string of 1..128 characters).
AuthStepOn(i) ==
    /\ AuthStep
    /\ call'.username = Str(users[i].username)
    /\ call'.password.type = "string"
    /\ Len(call'.password.value) \in 1..128

\* Account i is locked at the time of the step.
LockedNow(i) == users[i].lockedUntil # EMPTY /\ now < users[i].lockedUntil

\* The password of the call is the one account i was given.
RightPassword(i) == call'.password.value = PasswordOf(users[i].username)

AttemptsRemainingText(n) ==
    IF n = 1 THEN "Invalid credentials. 1 attempt remaining."
    ELSE "Invalid credentials. " \o ToString(n) \o " attempts remaining."

LockedText(minutes) ==
    IF minutes = 1
    THEN "Account locked due to multiple failed login attempts. Try again in 1 minute."
    ELSE "Account locked due to multiple failed login attempts. Try again in "
            \o ToString(minutes) \o " minutes."

\* What every get of the cache returns at time t: the readable entries.
CacheView(c, t) == [k \in {x \in DOMAIN c : CacheHas(c, t, x)} |-> c[k].value]

NoTokenIssued == cache' = cache /\ uuidCount' = uuidCount

(***************************************************************************)
(* C1.  From an Active account with failedAttempts = 0 and no lock, the    *)
(* k-th consecutive wrong password (the account then holds k - 1 failures) *)
(* records k failures at the time of the call; for k = 1..4 the account    *)
(* stays unlocked and the call reports 5 - k attempts remaining, "1        *)
(* attempt remaining" for k = 4; for k = 5 lockedUntil becomes now + 15    *)
(* minutes, strictly in the future, and the call returns the lockout       *)
(* message.                                                                *)
(***************************************************************************)
C1_FiveFailuresLock ==
    [][\A i \in 1..Len(users) :
          (/\ AuthStepOn(i)
           /\ users[i].status = "Active"
           /\ users[i].lockedUntil = EMPTY
           /\ ~RightPassword(i))
          => LET before == IF users[i].failedAttempts = EMPTY THEN 0
                           ELSE users[i].failedAttempts
                 k == before + 1
             IN /\ k <= 5
                /\ users'[i].failedAttempts = k
                /\ users'[i].lastFailed = now
                /\ result'.success = FALSE
                /\ k < 5 => /\ users'[i].lockedUntil = EMPTY
                            /\ result'.message = AttemptsRemainingText(5 - k)
                /\ k = 5 => /\ users'[i].lockedUntil = now + 15 * 60000
                            /\ users'[i].lockedUntil > now
                            /\ result'.message = LockedText(15)
                /\ \A j \in 1..Len(users) : j # i => users'[j] = users[j]]_vars

\* The fifth consecutive wrong password has just locked an account that had four
\* failures and no lock.
C1_Witness ==
    /\ call.op = "authenticateUser"
    /\ call.row.userId # ""
    /\ call.row.failedAttempts = 4
    /\ call.row.lockedUntil = EMPTY
    /\ call.verified
    /\ result.success = FALSE
    /\ result.message = LockedText(15)
    /\ \E i \in 1..Len(users) :
          /\ users[i].userId = call.row.userId
          /\ users[i].failedAttempts = 5
          /\ users[i].lockedUntil = call.at + 900000

(***************************************************************************)
(* C2.  While an Active account is locked (now < lockedUntil) every        *)
(* authenticateUser call for it, with the right or a wrong password, fails *)
(* with the lockout message carrying ceil((lockedUntil - now) / 60000)     *)
(* minutes, a number from 1 to 15; the password is not verified, no token  *)
(* is issued and the sheet (failedAttempts, lastFailedAt, lockedUntil) is  *)
(* unchanged.                                                              *)
(***************************************************************************)
C2_LockedRejects ==
    [][\A i \in 1..Len(users) :
          (AuthStepOn(i) /\ users[i].status = "Active" /\ LockedNow(i))
          => /\ \E m \in 1..15 :
                   /\ (m - 1) * 60000 < users[i].lockedUntil - now
                   /\ users[i].lockedUntil - now <= m * 60000
                   /\ result' = [success |-> FALSE, message |-> LockedText(m)]
             /\ ~call'.verified
             /\ NoTokenIssued
             /\ users' = users]_vars

\* A locked account has just been refused with its right password, one
\* millisecond before the lock ends.
C2_Witness ==
    /\ call.op = "authenticateUser"
    /\ call.row.userId # ""
    /\ call.row.status = "Active"
    /\ call.row.lockedUntil = call.at + 1
    /\ call.password.value = PasswordOf(call.row.username)
    /\ result = [success |-> FALSE, message |-> LockedText(1)]
    /\ ~call.verified

(***************************************************************************)
(* C3.  For an Active account that is not locked (lockedUntil empty, or    *)
(* now >= lockedUntil), authenticateUser with the matching password        *)
(* returns success, sets failedAttempts to 0, clears lastFailedAt and      *)
(* lockedUntil, and returns a session token that validateSessionToken      *)
(* accepts at once and maps to the account's username.                     *)
(***************************************************************************)
C3_LoginSucceeds ==
    [][\A i \in 1..Len(users) :
          (/\ AuthStepOn(i)
           /\ users[i].status = "Active"
           /\ ~LockedNow(i)
           /\ RightPassword(i))
          => /\ result'.success = TRUE
             /\ users'[i].failedAttempts = 0
             /\ users'[i].lastFailed = EMPTY
             /\ users'[i].lockedUntil = EMPTY
             /\ result'.user.username = users[i].username
             /\ validateSessionToken(cache', now', result'.sessionToken) # Null
             /\ validateSessionToken(cache', now', result'.sessionToken).username
                    = users[i].username]_vars

\* A login has just succeeded on an account whose lock had run out, at the very
\* millisecond it ended.
C3_Witness ==
    /\ call.op = "authenticateUser"
    /\ call.row.userId # ""
    /\ call.row.failedAttempts = 5
    /\ call.row.lockedUntil = call.at
    /\ result.success = TRUE
    /\ \E i \in 1..Len(users) :
          /\ users[i].userId = call.row.userId
          /\ users[i].failedAttempts = 0
          /\ users[i].lockedUntil = EMPTY
          /\ validateSessionToken(cache, call.at, result.sessionToken).username
                = users[i].username

(***************************************************************************)
(* C4.  Once a lock has run out (now >= lockedUntil) a wrong password is   *)
(* not rejected as locked and does not lock the account again: the call    *)
(* reports attempts remaining and leaves the account unlocked.             *)
(***************************************************************************)
C4_FreshSequenceAfterExpiry ==
    [][\A i \in 1..Len(users) :
          (/\ AuthStepOn(i)
           /\ users[i].status = "Active"
           /\ users[i].lockedUntil # EMPTY
           /\ now >= users[i].lockedUntil
           /\ ~RightPassword(i))
          => /\ \E n \in 1..4 : result'.message = AttemptsRemainingText(n)
             /\ ~(users'[i].lockedUntil # EMPTY /\ now < users'[i].lockedUntil)]_vars

(***************************************************************************)
(* C7.  For an account whose status is not Active, authenticateUser fails  *)
(* with the inactive-account message whatever the password and whatever    *)
(* the lock state; the password is not verified, no token is issued and    *)
(* no field of any account changes.                                        *)
(***************************************************************************)
C7_InactiveRejected ==
    [][\A i \in 1..Len(users) :
          (AuthStepOn(i) /\ users[i].status # "Active")
          => /\ result' = [success |-> FALSE,
                           message |-> "Account is inactive. Please contact administrator."]
             /\ ~call'.verified
             /\ NoTokenIssued
             /\ users' = users]_vars

\* A deactivated account that is also locked has just been refused, with its right
\* password, as inactive.
C7_Witness ==
    /\ call.op = "authenticateUser"
    /\ call.row.userId # ""
    /\ call.row.status = "Inactive"
    /\ call.row.lockedUntil # EMPTY
    /\ call.at < call.row.lockedUntil
    /\ call.password.value = PasswordOf(call.row.username)
    /\ result.message = "Account is inactive. Please contact administrator."

(***************************************************************************)
(* C5.  The result authenticateUser returns for an input that fails        *)
(* validation (missing, not a string, username longer than 50, password    *)
(* longer than 128) has the same success flag and the same message as the  *)
(* result it returns for a wrong password on an existing account.          *)
(***************************************************************************)
FailsValidation(username, password) ==
    \/ username.type # "string" \/ password.type # "string"
    \/ username.value = "" \/ password.value = ""
    \/ Len(username.value) > 50 \/ Len(password.value) > 128

C5_ValidationLooksLikeWrongPassword ==
    [][\A i \in 1..Len(users) :
          (/\ AuthStepOn(i)
           /\ users[i].status = "Active"
           /\ ~LockedNow(i)
           /\ ~RightPassword(i))
          => \A username \in UsernameInputs, password \in PasswordInputs :
                FailsValidation(username, password)
                => LET invalid == AuthResult(users, now, username, password, "", "")
                   IN /\ result'.success = invalid.success
                      /\ result'.message = invalid.message]_vars

(***************************************************************************)
(* C6.  An authenticateUser call whose username exactly matches no stored  *)
(* username (one that differs only in letter case included) returns the    *)
(* generic 'Invalid credentials' failure, issues no token and leaves every *)
(* account unchanged.                                                      *)
(***************************************************************************)
C6_UnknownUsername ==
    [][(AuthStep /\ \A i \in 1..Len(users) : call'.username # Str(users[i].username))
          => /\ result' = [success |-> FALSE, message |-> "Invalid credentials"]
             /\ NoTokenIssued
             /\ users' = users]_vars

\* 'Admin' with the administrator's password has just been refused, and the
\* administrator's account still holds the failures it had.
C6_Witness ==
    /\ call.op = "authenticateUser"
    /\ call.username = Str("Admin")
    /\ call.password = Str(AdminPassword)
    /\ call.row.userId = ""
    /\ result = [success |-> FALSE, message |-> "Invalid credentials"]
    /\ \E i \in 1..Len(users) :
          /\ users[i].username = "admin"
          /\ users[i].failedAttempts = 3
          /\ users[i].lastFailed # EMPTY

(***************************************************************************)
(* C8.  A session token is accepted by validateSessionToken, which maps it *)
(* to its user, at every time before SESSION_TIMEOUT (360 minutes) has     *)
(* elapsed since it was issued, unless it has been invalidated, and        *)
(* validateSessionToken returns null for it at every time from then on.    *)
(***************************************************************************)
C8_SessionLifetime ==
    \A s \in sessionLog :
        LET session == validateSessionToken(cache, now, s.token)
        IN /\ (now < s.at + 360 * 60000 /\ s.token \notin invalidated)
                => (session # Null /\ session.username = s.username)
           /\ now >= s.at + 360 * 60000 => session = Null

\* validateSessionToken has just returned null for a token that was never
\* invalidated, exactly 360 minutes after it was issued.
C8_Witness ==
    /\ call.op = "validateSessionToken"
    /\ result = Null
    /\ \E s \in sessionLog :
          /\ s.token = call.token
          /\ s.token \notin invalidated
          /\ call.at = s.at + 21600000

(***************************************************************************)
(* C9.  At most one CSRF token is live per username: validateCsrfToken     *)
(* accepts a token for a user exactly when it is the token most recently   *)
(* issued to that user and less than one hour old; it returns false for an *)
(* earlier token of the user, for a missing, empty or mismatched token and *)
(* for an expired one.                                                     *)
(***************************************************************************)
C9_OneLiveCsrfToken ==
    \A username \in StoredUsernames, token \in CsrfTokenInputs \cup SessionTokenInputs :
        validateCsrfToken(cache, now, username, token)
        <=> \E k \in 1..Len(csrfLog) :
               /\ csrfLog[k].username = username
               /\ csrfLog[k].token = token
               /\ \A j \in (k + 1)..Len(csrfLog) : csrfLog[j].username # username
               /\ now < csrfLog[k].at + 3600000

\* validateCsrfToken has just refused a user's first token, not yet an hour old,
\* after a second one was issued to the same user.
C9_Witness ==
    /\ call.op = "validateCsrfToken"
    /\ result = [type |-> "boolean", value |-> FALSE]
    /\ \E k \in 1..Len(csrfLog) :
          /\ csrfLog[k].username = call.username
          /\ csrfLog[k].token = call.token
          /\ call.at < csrfLog[k].at + 3600000
          /\ \E j \in (k + 1)..Len(csrfLog) :
                csrfLog[j].username = call.username /\ csrfLog[j].at <= call.at

(***************************************************************************)
(* C10.  After invalidateSessionToken(t), validateSessionToken(t) returns  *)
(* null from then on; invalidateSessionToken returns without an error,     *)
(* and when its token is unknown, already invalidated, expired or empty it *)
(* changes nothing any cache read returns (so it is idempotent).           *)
(***************************************************************************)
C10_InvalidateSession ==
    [][/\ \A token \in invalidated' : validateSessionToken(cache', now', token) = Null
       /\ (call'.op = "invalidateSessionToken" /\ advances' = advances)
          => /\ validateSessionToken(cache', now', call'.token) = Null
             /\ result' = [type |-> "undefined"]
             /\ validateSessionToken(cache, now, call'.token) = Null
                   => CacheView(cache', now') = CacheView(cache, now)]_vars

\* A session token that had not run out has just been invalidated, and
\* validateSessionToken now returns null for it.
C10_Witness ==
    /\ call.op = "invalidateSessionToken"
    /\ \E s \in sessionLog :
          /\ s.token = call.token
          /\ s.token \in invalidated
          /\ now < s.at + 21600000
          /\ validateSessionToken(cache, now, s.token) = Null

(***************************************************************************)
(* C11.  A token operation touches its own cache key only.  A call that    *)
(* issues, validates or invalidates a session token leaves the answer of   *)
(* validateSessionToken for every other session token as it was, so a new  *)
(* login leaves the earlier sessions of the account valid; a call that     *)
(* issues a CSRF token for one user leaves the answers of                  *)
(* validateCsrfToken for every other user as they were.                    *)
(***************************************************************************)
\* The username a call of authenticateUser or generateCsrfToken names.
ActingUsername(c) ==
    IF c.op = "authenticateUser" THEN c.username.value
    ELSE IF c.op = "generateCsrfToken" THEN c.username
    ELSE ""

C11_TokensIndependent ==
    [][(advances' = advances)
          => /\ \A s \in sessionLog :
                   (call'.op = "invalidateSessionToken" => call'.token # s.token)
                   => validateSessionToken(cache', now', s.token)
                         = validateSessionToken(cache, now, s.token)
             /\ \A s \in sessionLog' \ sessionLog :
                   /\ validateSessionToken(cache', now', s.token) # Null
                   /\ validateSessionToken(cache', now', s.token).username = s.username
             /\ \A username \in StoredUsernames :
                   username # ActingUsername(call')
                   => \A token \in CsrfTokenInputs :
                         validateCsrfToken(cache', now', username, token)
                            = validateCsrfToken(cache, now, username, token)]_vars

\* An account has just logged in a second time while its first session was live
\* and while another user held a live CSRF token: the first session and the other
\* user's token are still accepted.
C11_Witness ==
    /\ call.op = "authenticateUser"
    /\ result.success = TRUE
    /\ validateSessionToken(cache, now, result.sessionToken) # Null
    /\ \E s \in sessionLog :
          /\ s.username = result.user.username
          /\ s.token # result.sessionToken
          /\ validateSessionToken(cache, now, s.token) # Null
    /\ \E k \in 1..Len(csrfLog) :
          /\ csrfLog[k].username # result.user.username
          /\ validateCsrfToken(cache, now, csrfLog[k].username, csrfLog[k].token)

(***************************************************************************)
(* C12.  When the cache fails while the session token or the CSRF token is *)
(* minted during a login that otherwise succeeds (Active account, not      *)
(* locked, matching password), authenticateUser returns success with that  *)
(* token equal to ''; failedAttempts, lastFailed and lockedUntil have been *)
(* reset, and validateSessionToken / validateCsrfToken reject the empty    *)
(* token.                                                                  *)
(***************************************************************************)
C12_EmptyTokenOnCacheFailure ==
    [][\A i \in 1..Len(users) :
          (/\ AuthStepOn(i)
           /\ users[i].status = "Active"
           /\ ~LockedNow(i)
           /\ RightPassword(i)
           /\ call'.fault \in {"sessionCache", "csrfCache", "bothCaches"})
          => /\ result'.success = TRUE
             /\ call'.fault \in {"sessionCache", "bothCaches"}
                   => /\ result'.sessionToken = ""
                      /\ validateSessionToken(cache', now', result'.sessionToken) = Null
             /\ call'.fault \in {"csrfCache", "bothCaches"}
                   => /\ result'.csrfToken = ""
                      /\ ~validateCsrfToken(cache', now', users[i].username,
                                            result'.csrfToken)
             /\ users'[i].failedAttempts = 0
             /\ users'[i].lastFailed = EMPTY
             /\ users'[i].lockedUntil = EMPTY]_vars

\* A login on an account that held failures has just succeeded while the cache
\* refused the session token: the result carries '' for it and a CSRF token.
C12_Witness ==
    /\ call.op = "authenticateUser"
    /\ call.fault = "sessionCache"
    /\ call.row.userId # ""
    /\ call.row.failedAttempts = 2
    /\ result.success = TRUE
    /\ result.sessionToken = ""
    /\ result.csrfToken # ""
    /\ validateSessionToken(cache, now, result.sessionToken) = Null
    /\ \E i \in 1..Len(users) :
          /\ users[i].userId = call.row.userId
          /\ users[i].failedAttempts = 0
          /\ users[i].lastFailed = EMPTY

(***************************************************************************)
(* C13.  authenticateUser always returns an object with a success flag and *)
(* a message, whatever its input and whatever fails: with the Users sheet  *)
(* missing the flag is false; when opening the spreadsheet, reading the    *)
(* sheet or writing a counter throws, the result is success = false with   *)
(* 'Authentication failed. Please try again.'.                             *)
(***************************************************************************)
GenericFailure ==
    [success |-> FALSE, message |-> "Authentication failed. Please try again."]

C13_NeverRaises ==
    [][AuthStep
          => /\ {"success", "message"} \subseteq DOMAIN result'
             /\ result'.success \in BOOLEAN
             /\ call'.fault = "noSheet" => result'.success = FALSE
             /\ call'.fault = "open" => result' = GenericFailure
             /\ (call'.fault = "read"
                    /\ ~FailsValidation(call'.username, call'.password))
                   => result' = GenericFailure
             /\ \A i \in 1..Len(users) :
                   (/\ AuthStepOn(i)
                    /\ users[i].status = "Active"
                    /\ ~LockedNow(i)
                    /\ call'.fault \in {"write1", "write2"})
                   => result' = GenericFailure]_vars

\* A wrong password has just been counted on the sheet, and the write of the
\* time of the failure threw: the call returned the generic failure.
C13_Witness ==
    /\ call.op = "authenticateUser"
    /\ call.fault = "write2"
    /\ call.row.userId # ""
    /\ call.row.failedAttempts = 0
    /\ call.row.lastFailed = EMPTY
    /\ result = GenericFailure
    /\ \E i \in 1..Len(users) :
          /\ users[i].userId = call.row.userId
          /\ users[i].failedAttempts = 1
          /\ users[i].lastFailed = EMPTY

(***************************************************************************)
(* C14.  changePassword, given the account's current password and a new    *)
(* password that validatePassword accepts, refuses the new password when   *)
(* its hash is in the account's stored history and then leaves the sheet   *)
(* (hash, history, force-change flag) as it was; otherwise it stores the   *)
(* hash and puts it first in the history, ahead of the earlier hashes in   *)
(* their order, keeping 5.  No history ever holds more than 5 hashes.  So  *)
(* after 5 changes the default password of the administrator is out of the *)
(* history and is accepted again (the witness).                            *)
(***************************************************************************)
ChangeStepOn(i) ==
    /\ call'.op = "changePassword"
    /\ advances' = advances
    /\ call'.username = users[i].username
    /\ hashPassword(call'.currentPassword) = users[i].passwordHash
    /\ validatePassword(call'.newPassword).valid

C14_PasswordHistory ==
    [][/\ \A i \in 1..Len(users') : Len(users'[i].passwordHistory) <= 5
       /\ \A i \in 1..Len(users) :
             ChangeStepOn(i)
             => LET hash == hashPassword(call'.newPassword)
                    before == users[i].passwordHistory
                    after == users'[i].passwordHistory
                IN IF \E j \in 1..Len(before) : before[j] = hash
                   THEN /\ result' = [success |-> FALSE,
                                      message |-> "Password was used recently. Please choose a different password."]
                        /\ users' = users
                   ELSE /\ result'.success = TRUE
                        /\ users'[i].passwordHash = hash
                        /\ Len(after) = IF Len(before) < 5 THEN Len(before) + 1 ELSE 5
                        /\ after[1] = hash
                        /\ \A j \in 2..Len(after) : after[j] = before[j - 1]]_vars

\* The administrator has just changed the password back to the default one, which
\* five changes had pushed out of the history.
C14_Witness ==
    /\ call.op = "changePassword"
    /\ call.username = "admin"
    /\ call.newPassword = AdminPassword
    /\ result.success = TRUE
    /\ \E i \in 1..Len(users) :
          /\ users[i].username = "admin"
          /\ users[i].passwordHash = hashPassword(AdminPassword)
          /\ users[i].passwordHistory =
                <<hashPassword(AdminPassword), hashPassword("NewPass05"),
                  hashPassword("NewPass04"), hashPassword("NewPass03"),
                  hashPassword("NewPass02")>>

(***************************************************************************)
(* C15.  A successful login returns forcePasswordChange = true exactly     *)
(* when the account's Force Password Change cell holds 'TRUE'.  The cell   *)
(* of the default administrator holds 'TRUE' from setupSheets; a cell      *)
(* changes only in a successful changePassword for its account, which sets *)
(* it to 'FALSE'.  So the administrator's logins return true until a       *)
(* changePassword for the account succeeds, and false from then on.        *)
(***************************************************************************)
C15_ForcePasswordChange ==
    [][/\ \A i \in 1..Len(users) :
             (AuthStep /\ call'.username = Str(users[i].username)
                       /\ result'.success = TRUE)
             => result'.forcePasswordChange = (users[i].forcePasswordChange = "TRUE")
       /\ \A i \in 1..Len(users) :
             (ChangeStepOn(i) /\ result'.success = TRUE)
             => users'[i].forcePasswordChange = "FALSE"
       /\ \A i \in 1..Len(users) :
             users'[i].forcePasswordChange # users[i].forcePasswordChange
             => ChangeStepOn(i) /\ result'.success = TRUE
       /\ \A i \in 1..Len(users') :
             users'[i].userId = "USR001"
             => (users'[i].forcePasswordChange = "TRUE"
                    <=> users'[i].passwordHistory = <<hashPassword(AdminPassword)>>)]_vars

\* The administrator, who had logged in before, has just logged in again after a
\* successful password change, and the login returned forcePasswordChange = false.
C15_Witness ==
    /\ call.op = "authenticateUser"
    /\ call.username = Str("admin")
    /\ call.password # Str(AdminPassword)
    /\ call.row.forcePasswordChange = "FALSE"
    /\ result.success = TRUE
    /\ result.forcePasswordChange = FALSE
    /\ \E s \in sessionLog : s.username = "admin" /\ s.token # result.sessionToken

(***************************************************************************)
(* C16.  No two accounts have usernames that are equal ignoring letter     *)
(* case; addUser refuses a username that is, after sanitizing, the         *)
(* username of an account, and updateUser refuses a username that is the   *)
(* username of an account other than the one it updates; both then leave   *)
(* the sheet as it was.                                                    *)
(***************************************************************************)
SameIgnoringCase(a, b) == toLowerCase(a) = toLowerCase(b)

C16_UsernamesUnique ==
    [][/\ \A i, j \in 1..Len(users') :
             i # j => ~SameIgnoringCase(users'[i].username, users'[j].username)
       /\ (/\ call'.op = "addUser"
           /\ advances' = advances
           /\ \E i \in 1..Len(users) :
                 SameIgnoringCase(users[i].username,
                                  sanitizeInput(call'.userData.username)))
          => result'.success = FALSE /\ users' = users
       /\ (/\ call'.op = "updateUser"
           /\ advances' = advances
           /\ \E i \in 1..Len(users) :
                 /\ i # FindUserById(users, call'.userData.userId)
                 /\ SameIgnoringCase(users[i].username, call'.userData.username))
          => result'.success = FALSE /\ users' = users]_vars

(***************************************************************************)
(* C17.  No two accounts have the same userId, and the userId of an        *)
(* account never changes while the account exists (clearAllData removes    *)
(* the accounts).                                                          *)
(***************************************************************************)
C17_UserIdsUnique ==
    [][/\ \A i, j \in 1..Len(users') : i # j => users'[i].userId # users'[j].userId
       /\ call'.op # "clearAllData"
             => \A i \in 1..Len(users) :
                   i <= Len(users') /\ users'[i].userId = users[i].userId]_vars


(***************************************************************************)
(* Permissions and the audit trail.                                        *)
(***************************************************************************)
\* The operations on guards and performance records, which take the caller's
\* username as their last argument.
RecordOps ==
    {"addGuard", "updateGuard", "deleteGuard", "addPerformanceRecord",
     "updatePerformanceRecord", "deletePerformanceRecord"}

ViolationTypeOps == {"addViolationType", "updateViolationType", "deleteViolationType"}

\* The username is that of a row of the Users sheet whose role is Admin.
IsAdmin(username) ==
    \E i \in 1..Len(users) : users[i].username = username /\ users[i].role = "Admin"

\* C18: an operation on guards or performance records that is called on behalf
\* of a username that is not an Admin's (a Viewer's, or no user's) is denied and
\* leaves every sheet as it was.
C18_OnlyAdminMutates ==
    [][(call'.op \in RecordOps /\ ~IsAdmin(call'.actor))
          => /\ result'.success = FALSE
             /\ UNCHANGED <<users, guards, documents, performance, violationTypes>>]_vars

\* The outcome of the call c in the current state, with the audit append failing
\* or not.
RecordOutcome(c, auditFails) ==
    CASE c.op = "addGuard" -> addGuard(c.guardData, c.actor, auditFails)
      [] c.op = "updateGuard" -> updateGuard(c.guardId, c.guardData, c.actor, auditFails)
      [] c.op = "deleteGuard" -> deleteGuard(c.guardId, c.actor, auditFails)
      [] c.op = "addPerformanceRecord" ->
             addPerformanceRecord(c.performanceData, c.actor, auditFails)
      [] c.op = "updatePerformanceRecord" ->
             updatePerformanceRecord(c.recordId, c.performanceData, c.actor, auditFails)
      [] c.op = "deletePerformanceRecord" ->
             deletePerformanceRecord(c.recordId, c.actor, auditFails)

\* The step has made the change the call c asks for: the row is added, removed,
\* or holds the values given.
MutationDone(c) ==
    CASE c.op = "addGuard" ->
             /\ Len(guards') = Len(guards) + 1
             /\ Len(documents') = Len(documents) + 1
      [] c.op = "updateGuard" ->
             /\ Len(guards') = Len(guards)
             /\ guards'[FindRow(guards, c.guardId)].status = c.guardData.status
      [] c.op = "deleteGuard" ->
             /\ Len(guards') = Len(guards) - 1
      [] c.op = "addPerformanceRecord" ->
             /\ Len(performance') = Len(performance) + 1
      [] c.op = "updatePerformanceRecord" ->
             /\ Len(performance') = Len(performance)
             /\ performance'[FindRow(performance, c.recordId)].type
                   = c.performanceData.type
      [] c.op = "deletePerformanceRecord" ->
             /\ Len(performance') = Len(performance) - 1

\* C19: when the append to the Audit Trail sheet fails, an operation on guards or
\* performance records returns what it returns when the append succeeds and
\* leaves the sheets as it leaves them then, an operation that succeeds has
\* made its change, and the trail is as it was.
C19_AuditFailureIsHarmless ==
    [][(call'.op \in RecordOps /\ call'.auditFails)
          => LET ok == RecordOutcome(call', FALSE)
             IN /\ result' = ok.result
                /\ guards' = ok.sheets.guards
                /\ documents' = ok.sheets.documents
                /\ performance' = ok.sheets.performance
                /\ violationTypes' = ok.sheets.violationTypes
                /\ audit' = audit
                /\ ok.result.success
                      => /\ MutationDone(call')
                         /\ Len(ok.sheets.audit) = Len(audit) + 1]_vars

\* The administrator has just deleted the only guard while the Audit Trail sheet
\* refused the append: the call succeeded, the guard and its documents row are
\* gone and the trail holds only the row written when the guard was added.
C19_Witness ==
    /\ call.op = "deleteGuard"
    /\ call.auditFails
    /\ call.actor = "admin"
    /\ result = [success |-> TRUE, message |-> "Guard deleted successfully"]
    /\ guards = <<>>
    /\ documents = <<>>
    /\ Len(audit) = 1
    /\ audit[1].action = "Add"

\* C20: every successful add, update or delete of a guard, a performance record
\* or a violation type, made while the Audit Trail sheet accepts appends, adds
\* one row to the trail, and the row carries the acting username, 'System' when
\* the call gives none.
C20_EveryMutationAudited ==
    [][(/\ call'.op \in RecordOps \cup ViolationTypeOps
        /\ ~call'.auditFails
        /\ result'.success)
          => LET actor == IF "actor" \in DOMAIN call' THEN call'.actor ELSE ""
             IN /\ Len(audit') = Len(audit) + 1
                /\ SubSeq(audit', 1, Len(audit)) = audit
                /\ audit'[Len(audit')].username
                      = IF actor = "" THEN "System" ELSE actor]_vars


(***************************************************************************)
(* The audit trail: reading, archiving, identifiers.                       *)
(***************************************************************************)
\* The limit the call asks for: the number given, 10 when none is given.
LimitAsked(limit) == IF limit.type = "undefined" THEN 10 ELSE limit.n

Min(a, b) == IF a < b THEN a ELSE b

\* C21: getRecentActivity(limit) returns min(limit, number of events) events
\* (limit being 10 when unspecified), newest first, and no event left out is
\* newer than a returned one; after the five calls of testAuditTrail on an
\* empty trail, getRecentActivity(3) returns the last three events recorded,
\* the last one first.
C21_RecentActivity ==
    call.op = "getRecentActivity"
    => LET returned == result.value
           chosen == {returned[i] : i \in 1..Len(returned)}
           events == {Activity(audit[m]) : m \in 1..Len(audit)}
       IN /\ Len(returned) = Min(LimitAsked(call.limit), Len(audit))
          /\ Cardinality(chosen) = Len(returned)
          /\ chosen \subseteq events
          /\ \A i, j \in 1..Len(returned) :
                i < j => ~Before(returned[i].timestamp, returned[j].timestamp)
          /\ \A a \in events \ chosen, b \in chosen :
                ~Before(b.timestamp, a.timestamp)
          /\ (Len(audit) = 5 /\ call.limit = Number(3))
                => returned = <<Activity(audit[5]), Activity(audit[4]),
                                Activity(audit[3])>>


\* The rows of the trail that are events: not empty, with a date as timestamp.
WellFormed(trail) == SelectSeq(trail, LAMBDA row : IsDate(row.timestamp))

\* C22: getRecentActivity skips the empty rows and the rows without a valid
\* timestamp: no returned entry is such a row, and what is returned is what is
\* returned for the trail without these rows.
C22_SkipsMalformedRows ==
    call.op = "getRecentActivity"
    => /\ \A i \in 1..Len(result.value) :
             /\ IsDate(result.value[i].timestamp)
             /\ result.value[i].auditId # ""
       /\ result.value \in getRecentActivity(WellFormed(audit), call.limit)


\* The rows of a trail that are not older than the retention period at time t.
Recent(trail, t) == SelectSeq(trail, LAMBDA row : ~IsOld(row, t))

\* C23: a run of archiveOldAuditLogs appends to the archive sheet of the
\* current month only events of the live trail that are older than 365 days,
\* leaves every other event in the live trail, and loses none, also when it
\* fails partway: each event of the live trail is afterwards in the live trail
\* or in the archive.  A run that succeeds has moved exactly the old events and
\* returns their number.
C23_ArchiveMovesOldEvents ==
    [][(call'.op = "archiveOldAuditLogs" /\ advances' = advances)
          => LET old == {m \in 1..Len(audit) : IsOld(audit[m], now)}
                 added == SubSeq(archive', Len(archive) + 1, Len(archive'))
             IN /\ SubSeq(archive', 1, Len(archive)) = archive
                /\ \A j \in 1..Len(added) :
                      /\ added[j].sheet = "Audit Archive " \o yyyyMM(DateAt(now))
                      /\ \E m \in old : added[j].row = audit[m]
                /\ \A m \in 1..Len(audit) :
                      \/ \E k \in 1..Len(audit') : audit'[k] = audit[m]
                      \/ \E j \in 1..Len(archive') : archive'[j].row = audit[m]
                /\ Recent(audit', now) = Recent(audit, now)
                /\ result'.success
                      => /\ audit' = Recent(audit, now)
                         /\ result'.archivedCount = Cardinality(old)
                         /\ Len(added) = Cardinality(old)
                         /\ \A m \in old : \E j \in 1..Len(added) :
                               added[j].row = audit[m]]_vars

\* A run has just moved old events to the archive and kept newer ones in the
\* live trail, after an earlier run had failed partway: the archive holds more
\* rows than this run moved.
C23_Witness ==
    /\ call.op = "archiveOldAuditLogs"
    /\ result.success
    /\ result.archivedCount >= 1
    /\ Len(audit) >= 1
    /\ faultCount = 1
    /\ Len(archive) > result.archivedCount


\* C24: no step updates or deletes an audit event: every row of the live trail
\* is afterwards, unchanged, in the live trail or in an archive, and every row
\* of an archive stays in it.
C24_EventsAreKept ==
    [][/\ \A m \in 1..Len(audit) :
             \/ \E k \in 1..Len(audit') : audit'[k] = audit[m]
             \/ \E j \in 1..Len(archive') : archive'[j].row = audit[m]
       /\ \A j \in 1..Len(archive) :
             \E k \in 1..Len(archive') : archive'[k] = archive[j]]_vars


\* C25: any two rows of the audit trail have different auditIds.
C25_AuditIdsUnique ==
    \A i, j \in 1..Len(audit) : i # j => audit[i].auditId # audit[j].auditId

(***************************************************************************)
(* Concurrent logins.  Each web request runs authenticateUser on its own,  *)
(* and nothing in the code takes a lock: an execution reads the whole      *)
(* Users sheet once, then verifies the password and writes the counter it  *)
(* computed from what it read.  The execution is split at the one point    *)
(* where another execution's writes can come in between: after the read.   *)
(***************************************************************************)

MaxProcesses == 2
MaxWrong == 7

RaceProcesses == 1..MaxProcesses
RacePasswords == {Str(AdminPassword), Str(GuardPassword)}

\* getDataRange().getValues() and new Date(): the execution keeps the rows and
\* the time it has read.
ReadUsersSheet(p, username, password) ==
    /\ \A e \in pending : e.process # p
    /\ wrongVerified + Cardinality(pending) < MaxWrong
    /\ pending' = pending \cup {[process |-> p, username |-> username,
                                 password |-> password, data |-> users, at |-> now]}
    /\ UNCHANGED <<users, cache, now, uuidCount, advances, call, result, sessionLog,
                   csrfLog, invalidated, records, faultCount, archive, wrongVerified,
                   dayZero>>

\* A variant in which the counter is read again from the sheet when it is
\* written, as it would be under a script lock.
RacingWrites_ReadsAgain(read, current, t, branch) ==
    AuthWrites(current, t, branch)

\* The cells the execution writes: computed from the row as it was read,
\* whatever the row holds by now.
RacingWrites(read, current, t, branch) ==
    AuthWrites(read, t, branch)

\* The rest of the execution: the loop over the rows it has read, the password
\* check, the writes to the sheet as it is now, the tokens.
VerifyAndWrite(p) ==
    \E e \in pending :
        LET outcome == AuthOutcome(e.data, e.at, e.username, e.password, "none")
            i == FindUser(e.data, e.username)
            writes == RacingWrites(e.data[i], users[i], e.at, outcome)
            session == generateSessionToken(cache, now, uuidCount, e.data[i].username)
            csrf == generateCsrfToken(session.cache, now, session.uuidCount,
                                      e.data[i].username)
        IN /\ e.process = p
           /\ outcome = "success" => uuidCount + 2 <= MaxUuid
           /\ pending' = pending \ {e}
           /\ users' = IF outcome \in {"success", "failed", "lockout"}
                       THEN [users EXCEPT ![i] = RowAfterWrites(@, writes, Len(writes))]
                       ELSE users
           /\ wrongVerified' = IF outcome \in {"failed", "lockout"}
                               THEN wrongVerified + 1 ELSE wrongVerified
           /\ IF outcome = "success"
              THEN /\ result' = AuthResult(e.data, e.at, e.username, e.password,
                                           session.token, csrf.token)
                   /\ cache' = csrf.cache
                   /\ uuidCount' = csrf.uuidCount
                   /\ sessionLog' = sessionLog \cup
                         {[token |-> session.token, username |-> e.data[i].username,
                           at |-> now]}
                   /\ csrfLog' = Append(csrfLog, [token |-> csrf.token,
                                                  username |-> e.data[i].username,
                                                  at |-> now])
              ELSE /\ result' = AuthFaultResult(e.data, e.at, e.username, e.password,
                                                "none")
                   /\ UNCHANGED <<cache, uuidCount, sessionLog, csrfLog>>
           /\ call' = [op |-> "authenticateUser", username |-> e.username,
                       password |-> e.password, at |-> e.at,
                       row |-> IF i = 0 THEN [userId |-> ""] ELSE e.data[i],
                       verified |-> outcome \in {"success", "failed", "lockout"},
                       fault |-> "none"]
           /\ UNCHANGED <<now, advances, invalidated, records, faultCount, archive,
                          dayZero>>

NextRace ==
    \/ \E p \in RaceProcesses, password \in RacePasswords :
          ReadUsersSheet(p, Str("admin"), password)
    \/ \E p \in RaceProcesses : VerifyAndWrite(p)

SpecRace == Init /\ [][NextRace]_vars

\* C26: an execution that verifies a wrong password writes the count it read
\* plus one, and locks the account only if that sum reaches MAX_LOGIN_ATTEMPTS,
\* whatever other executions have written since it read the sheet; so the count
\* on the sheet never exceeds the number of wrong passwords verified, and can
\* fall short of it.
C26_LockoutCounterIsUnprotected ==
    [][\A e \in pending :
          (e \notin pending' /\ call'.verified /\ ~result'.success) =>
             LET i == FindUser(e.data, e.username)
                 seen == FailedAttemptsOf(e.data[i])
             IN /\ users'[i].failedAttempts = seen + 1
                /\ users'[i].failedAttempts <= wrongVerified'
                /\ seen + 1 < MAX_LOGIN_ATTEMPTS =>
                      users'[i].lockedUntil = users[i].lockedUntil
                /\ seen + 1 >= MAX_LOGIN_ATTEMPTS => users'[i].lockedUntil # EMPTY]_vars

\* More than MAX_LOGIN_ATTEMPTS wrong passwords have been verified, no login has
\* succeeded, and the account is not locked.
C26_Witness ==
    /\ wrongVerified > MAX_LOGIN_ATTEMPTS
    /\ sessionLog = {}
    /\ pending = {}
    /\ users[1].lockedUntil = EMPTY
    /\ FailedAttemptsOf(users[1]) < MAX_LOGIN_ATTEMPTS


\* C27: with logins made one after another, an account has a lockedUntil only
\* if its failedAttempts is at least MAX_LOGIN_ATTEMPTS.
C27_LockedOnlyAfterMaxAttempts ==
    \A i \in 1..Len(users) :
        users[i].lockedUntil # EMPTY =>
            FailedAttemptsOf(users[i]) >= MAX_LOGIN_ATTEMPTS

\* An account has been locked by its fifth wrong password in a row.
C27_Witness ==
    /\ call.op = "authenticateUser"
    /\ \E i \in 1..Len(users) :
          /\ users[i].lockedUntil # EMPTY
          /\ users[i].failedAttempts = MAX_LOGIN_ATTEMPTS
          /\ call.row.userId = users[i].userId
          /\ FailedAttemptsOf(call.row) = MAX_LOGIN_ATTEMPTS - 1


\* C28: changePassword enforces the lockout as authenticateUser does: for an
\* account that is locked or not Active it is refused without saying whether
\* the current password was right, and for any other account a current
\* password that does not match adds one to failedAttempts.
C28_ChangePasswordEnforcesLockout ==
    [][call'.op = "changePassword" =>
          LET i == FindUserByName(users, call'.username)
              mismatch == hashPassword(call'.currentPassword) # users[i].passwordHash
          IN i # 0 =>
                IF IsLocked(users[i], now) \/ users[i].status # "Active"
                THEN /\ ~result'.success
                     /\ result'.message # "Current password is incorrect"
                     /\ users' = users
                ELSE mismatch =>
                        users'[i].failedAttempts = FailedAttemptsOf(users[i]) + 1]_vars


\* C29: changePassword never accepts as new password the one the account
\* already has, whichever operation gave the account its password.
C29_NewPasswordDiffersFromCurrent ==
    [][(call'.op = "changePassword" /\ result'.success) =>
          LET i == FindUserByName(users, call'.username)
          IN hashPassword(call'.newPassword) # users[i].passwordHash]_vars


(***************************************************************************)
(* SpecAccounts: a session of the added account, and what happens to the   *)
(* account while the session lasts: its password is changed, the           *)
(* administrator deactivates it, renames it, gives it another role or      *)
(* another password, wrong passwords lock it.                              *)
(***************************************************************************)
AccountSteps == {SESSION_TIMEOUT_MINUTES * 60 * 1000 - 1}

\* updateUser as the user-management form sends it for an account that is not
\* the default administrator's: the account deactivated, or renamed and given
\* another role and another password.
AccountUpdates ==
    UNION {LET form == [userId |-> users[i].userId, username |-> users[i].username,
                        password |-> "", fullName |-> users[i].fullName,
                        role |-> users[i].role, status |-> users[i].status]
           IN {[form EXCEPT !.status = "Inactive"],
               [form EXCEPT !.username = "guard2", !.role = "Admin",
                            !.password = "NewPass02"]} :
           i \in {j \in 1..Len(users) : users[j].userId # DefaultAdminRow.userId}}

AccountNames == {users[i].username : i \in {j \in 1..Len(users) :
                                               users[j].userId # DefaultAdminRow.userId}}

IssuedTokens == {s.token : s \in sessionLog}

NextAccounts ==
    \/ \E username \in AccountNames :
          AuthenticateUser(Str(username), Str(CurrentPassword(username)))
    \/ \E username \in AccountNames :
          AuthenticateUser(Str(username), Str(AdminPassword))
    \/ \E username \in AccountNames :
          ChangePassword(username, CurrentPassword(username), "NewPass01")
    \/ \E userData \in AccountUpdates : UpdateUser(userData)
    \/ \E token \in IssuedTokens : ValidateSessionToken(token)
    \/ \E token \in IssuedTokens : InvalidateSessionToken(token)
    \/ \E d \in AccountSteps : Advance(d)

SpecAccounts == Init /\ [][NextAccounts]_vars


\* C30: whether validateSessionToken accepts a token depends on the cache
\* alone.  A token that was issued is accepted, and mapped to the username it
\* was issued for, exactly while it has not been invalidated and
\* SESSION_TIMEOUT has not elapsed since it was issued; no step other than
\* invalidateSessionToken and the passing of time changes what
\* validateSessionToken returns for it: not changePassword, not updateUser
\* deactivating or renaming the account or changing its role or password, not
\* the logins that lock the account.
C30_SessionDependsOnlyOnCache ==
    [][/\ \A s \in sessionLog :
            LET before == validateSessionToken(cache, now, s.token)
                after == validateSessionToken(cache', now', s.token)
            IN /\ (call'.op # "invalidateSessionToken" /\ advances' = advances)
                     => after = before
               /\ after # Null <=>
                     /\ s.token \notin invalidated'
                     /\ now' < s.at + SESSION_TIMEOUT_MINUTES * MS_PER_MINUTE
               /\ after # Null => after.username = s.username
       /\ (call'.op = "validateSessionToken" /\ advances' = advances) =>
             (result' # Null <=>
                 \E s \in sessionLog :
                     /\ s.token = call'.token
                     /\ s.token \notin invalidated
                     /\ now < s.at + SESSION_TIMEOUT_MINUTES * MS_PER_MINUTE)]_vars

\* validateSessionToken has just accepted the token of an account that has
\* since been renamed, given another password and deactivated.
C30_Witness ==
    /\ call.op = "validateSessionToken"
    /\ result # Null
    /\ \E i \in 1..Len(users) :
          /\ users[i].userId = GuardUserData.userId
          /\ users[i].status = "Inactive"
          /\ users[i].username # result.username
          /\ users[i].passwordHash # hashPassword(GuardPassword)

====
